---- MODULE Spec2Model ----
(***************************************************************************)
(* A model of the Calendly download pipeline of calendly-analytics:        *)
(*   - the paginating API client (calendly_service.py: get_json, paginate, *)
(*     _extract_items_from_response),                                      *)
(*   - the bulk downloader (calendly_service.py: download_all_data),       *)
(*   - the request handlers that start and observe it (endpoints.py).      *)
(*                                                                         *)
(* JSON values are encoded as follows.  A mapping is the sequence of its   *)
(* <<key, value>> pairs in insertion order (Python dicts keep it); a list  *)
(* is a sequence; a list item is a one-key object <<key, value>>.  The     *)
(* value under "pagination" is a block [nonempty, next_page] (next_page "" *)
(* stands for null/absent), the value under "meta" is [haspag, pag].       *)
(***************************************************************************)
EXTENDS Naturals, Sequences, FiniteSets, TLC

VARIABLES
    xresp,      \* _extract_items_from_response: the payload passed in
    xitems,     \* _extract_items_from_response: the value returned
    xpc,        \* "call" before the call, "done" after it
    \* one call of CalendlyService.paginate and the get_json calls it makes
    purl,       \* paginate: the url argument
    pparams,    \* paginate: the params argument (the set of its keys; None is {})
    results,    \* paginate: results
    next_url,   \* paginate: next_url ("" is None)
    next_params,\* paginate: next_params
    ppc,        \* "idle", "fetch" (in get_json, about to send), "sleep" (in
                \* asyncio.sleep), "returned", "raised"
    gwait,      \* get_json: wait, the sleep duration computed in the running call
    perr,       \* the exception that ended the call
    lastReq,    \* the last request sent: [url, params]
    reqCount,   \* the number of requests sent
    lastResp,   \* the last response received (status, headers, text)
    arrived,    \* the pages get_json returned, in order: [url, params, body]
    n429,       \* the number of 429 responses received
    elapsed,    \* the time units gone by since the last response, counted
                \* while get_json is in asyncio.sleep
    \* the server process
    download_state,     \* endpoints.download_state
    download_progress,  \* calendly_service.download_progress
    tasks,      \* the download tasks: position and locals of download_all_data
    running,    \* the task that has the event loop, 0 when it is free
    files,      \* the files under settings.data_dir
    reply,      \* the response of a handler that is being sent, NoReply when
                \* none is
    api,        \* the account data the Calendly API serves
    \* one request to an analytics endpoint
    data_dir,   \* the files under settings.data_dir as the request finds them
    dp,         \* the DataProcessor of the request: its three lists and the
                \* value load_data returned
    df,         \* AnalyticsService.df, the table create_analytics_dataframe built
    analytics,  \* the value the handler returns
    apc         \* "idle", "request" (received, not yet served), "done"

extractVars == <<xresp, xitems, xpc>>

clientVars == <<purl, pparams, results, next_url, next_params, ppc, gwait, perr,
                lastReq, reqCount, lastResp, arrived, n429, elapsed>>

serverVars == <<download_state, download_progress, tasks, running, files, reply, api>>

analyticsVars == <<data_dir, dp, df, analytics, apc>>

vars == <<xresp, xitems, xpc, purl, pparams, results, next_url, next_params, ppc,
          gwait, perr, lastReq, reqCount, lastResp, arrived, n429, elapsed,
          download_state, download_progress, tasks, running, files, reply, api,
          data_dir, dp, df, analytics, apc>>

(***************************************************************************)
(* Bounds of the model.                                                    *)
(***************************************************************************)
MaxKeys == 3        \* top-level keys of a payload handed to the extractor
MaxPages == 3       \* pages the server's longest cursor chain has
Max429 == 2         \* 429 responses the server gives during one behaviour
MaxTasks == 2       \* download tasks registered during one behaviour
MaxEventTypes == 2  \* event types of the account

(***************************************************************************)
(* JSON helpers.                                                           *)
(***************************************************************************)
NoBlock == [nonempty |-> FALSE, next_page |-> ""]

\* "k in resp" for a mapping given as its pairs
HasKey(pairs, k) == \E i \in DOMAIN pairs : pairs[i][1] = k

\* resp[k] for a key that is present
ValueOf(pairs, k) == pairs[CHOOSE i \in DOMAIN pairs : pairs[i][1] = k][2]

(***************************************************************************)
(* CalendlyService._extract_items_from_response                            *)
(***************************************************************************)
RECURSIVE PseudoItemsFrom(_, _, _)
\* the loop "for k, v in resp.items(): if k not in (...): items.append({k: v})"
PseudoItemsFrom(pairs, i, items) ==
    IF i > Len(pairs) THEN items
    ELSE IF pairs[i][1] \notin {"pagination", "meta"}
         THEN PseudoItemsFrom(pairs, i + 1, Append(items, <<pairs[i][1], pairs[i][2]>>))
         ELSE PseudoItemsFrom(pairs, i + 1, items)

\* mutant: the data key is looked up before the collection key
extract_items_data_first(resp) ==
    IF resp.kind = "map"
    THEN IF HasKey(resp.pairs, "data") THEN ValueOf(resp.pairs, "data")
         ELSE IF HasKey(resp.pairs, "collection") THEN ValueOf(resp.pairs, "collection")
         ELSE IF HasKey(resp.pairs, "resources") THEN ValueOf(resp.pairs, "resources")
         ELSE PseudoItemsFrom(resp.pairs, 1, <<>>)
    ELSE IF resp.kind = "list" THEN resp.elems
    ELSE <<>>

_extract_items_from_response(resp) ==
    IF resp.kind = "map"
    THEN IF HasKey(resp.pairs, "collection") THEN ValueOf(resp.pairs, "collection")
         ELSE IF HasKey(resp.pairs, "data") THEN ValueOf(resp.pairs, "data")
         ELSE IF HasKey(resp.pairs, "resources") THEN ValueOf(resp.pairs, "resources")
         ELSE PseudoItemsFrom(resp.pairs, 1, <<>>)
    ELSE IF resp.kind = "list" THEN resp.elems
    ELSE <<>>

(***************************************************************************)
(* HTTP responses.  exc = TRUE stands for requests.get raising (timeout,   *)
(* connection error) instead of returning a response.  retry_after is the  *)
(* Retry-After header: [present, text], text a sequence of characters.     *)
(***************************************************************************)
DefaultRetryAfter == 5

\* list items: one-key objects
ItemX == <<"uri", "x">>
ItemY == <<"uri", "y">>
ItemZ == <<"uri", "z">>

NoBody == [kind |-> "other", pairs |-> <<>>, elems |-> <<>>]
NoHeader == [present |-> FALSE, text |-> <<>>]
NoResponse == [exc |-> FALSE, status |-> 0, retry_after |-> NoHeader,
               json_ok |-> FALSE, body |-> NoBody, text |-> ""]
NoRequest == [url |-> "", params |-> {}]
NoError == [type |-> "", status |-> 0, url |-> "", body |-> ""]

Digits == <<"0", "1", "2", "3", "4", "5", "6", "7", "8", "9">>
IsDigit(c) == \E d \in DOMAIN Digits : Digits[d] = c
DigitValue(c) == (CHOOSE d \in DOMAIN Digits : Digits[d] = c) - 1

\* int(text) succeeds: a non-empty run of decimal digits
IsInt(text) == Len(text) > 0 /\ \A i \in DOMAIN text : IsDigit(text[i])

RECURSIVE IntValue(_)
\* int(text) for a text of decimal digits
IntValue(text) ==
    IF Len(text) = 0 THEN 0
    ELSE 10 * IntValue(SubSeq(text, 1, Len(text) - 1)) + DigitValue(text[Len(text)])

RetryAfterHeaders ==
    {NoHeader,
     [present |-> TRUE, text |-> <<"3">>],
     [present |-> TRUE, text |-> <<"1", "0">>],
     [present |-> TRUE, text |-> <<"W", "e", "d">>]}

RateLimitResponses ==
    {[exc |-> FALSE, status |-> 429, retry_after |-> h, json_ok |-> FALSE,
      body |-> NoBody, text |-> ""] : h \in RetryAfterHeaders}

ErrorStatuses == {401, 404, 500}

ErrorResponses ==
    {[exc |-> FALSE, status |-> s, retry_after |-> NoHeader, json_ok |-> j,
      body |-> NoBody, text |-> t] :
        s \in ErrorStatuses, j \in BOOLEAN, t \in {"", "error details"}}

NetworkFailure == [exc |-> TRUE, status |-> 0, retry_after |-> NoHeader,
                   json_ok |-> FALSE, body |-> NoBody, text |-> ""]

\* a response that is no error for raise_for_status and whose body is no JSON
NotJsonResponses ==
    {[exc |-> FALSE, status |-> s, retry_after |-> NoHeader, json_ok |-> FALSE,
      body |-> NoBody, text |-> "<html>"] : s \in {200, 304}}

JsonResponse(s, b) ==
    [exc |-> FALSE, status |-> s, retry_after |-> NoHeader, json_ok |-> TRUE,
     body |-> b, text |-> "json"]

(***************************************************************************)
(* The pages a server can answer with.  Page k of a chain points to page   *)
(* k + 1 with the cursor URL CursorUrl(k); the last page of the longest    *)
(* chain carries no cursor.                                                *)
(***************************************************************************)
CursorUrl(k) == "page" \o ToString(k + 1)

CollectionEnvelope == << <<"collection", <<ItemX, ItemY>>>> >>

Envelopes ==
    {CollectionEnvelope,
     << <<"data", <<ItemY>>>> >>,
     << <<"resources", <<>>>> >>,
     << <<"a", "1">>, <<"b", "1">> >>}

Block(next) == [nonempty |-> TRUE, next_page |-> next]
Meta(block) == [haspag |-> TRUE, pag |-> block]

\* the pagination block(s) of a page without a cursor: every envelope comes
\* without any block, the collection envelope also with the other layouts
EndPages ==
    {e \o <<>> : e \in Envelopes}
    \cup {CollectionEnvelope \o c :
            c \in {<< <<"pagination", Block("")>> >>,
                   << <<"meta", [haspag |-> FALSE, pag |-> NoBlock]>> >>,
                   << <<"meta", Meta(Block(""))>> >>}}

\* the pagination block(s) of a page with the cursor c: every envelope
\* comes with the cursor at either place, the collection envelope also
\* with an empty or cursorless top-level block beside the meta cursor
CursorPages(c) ==
    {e \o b : e \in Envelopes,
              b \in {<< <<"pagination", Block(c)>> >>, << <<"meta", Meta(Block(c))>> >>}}
    \cup {CollectionEnvelope \o b :
            b \in {<< <<"pagination", NoBlock>>, <<"meta", Meta(Block(c))>> >>,
                   << <<"pagination", Block("")>>, <<"meta", Meta(Block(c))>> >>}}

PageBodies(k) ==
    {[kind |-> "map", pairs |-> p, elems |-> <<>>] :
        p \in EndPages \cup (IF k < MaxPages THEN CursorPages(CursorUrl(k)) ELSE {})}

\* JSON bodies that are no mapping: a bare list, a scalar
OtherBodies ==
    {[kind |-> "list", pairs |-> <<>>, elems |-> <<ItemX>>], NoBody}

JsonResponses(k) ==
    {JsonResponse(200, b) : b \in PageBodies(k) \cup OtherBodies}
    \cup {JsonResponse(304, [kind |-> "map", pairs |-> CollectionEnvelope, elems |-> <<>>])}

(***************************************************************************)
(* CalendlyService.get_json: what one pass of its loop does with the       *)
(* response r to the request for url.                                      *)
(*   [kind |-> "sleep", wait]   sleep and send the request again           *)
(*   [kind |-> "raise", err]    the call fails                             *)
(*   [kind |-> "return", value] the call returns response.json()           *)
(***************************************************************************)
Outcome(kind, wait, err, value) ==
    [kind |-> kind, wait |-> wait, err |-> err, value |-> value]

\* requests.models.Response.raise_for_status: the HTTPError names the
\* status and the url; the response body is no part of its message
HTTPError(status, url) ==
    [type |-> "HTTPError", status |-> status, url |-> url, body |-> ""]

OtherError(type) == [type |-> type, status |-> 0, url |-> "", body |-> ""]

\* mutant: a 5xx response is retried like a 429
get_json_retries_5xx(url, r) ==
    IF r.exc THEN Outcome("raise", 0, OtherError("RequestException"), NoBody)
    ELSE IF r.status = 429 \/ r.status >= 500
    THEN IF r.retry_after.present
         THEN IF IsInt(r.retry_after.text)
              THEN Outcome("sleep", IntValue(r.retry_after.text), NoError, NoBody)
              ELSE Outcome("raise", 0, OtherError("ValueError"), NoBody)
         ELSE Outcome("sleep", DefaultRetryAfter, NoError, NoBody)
    ELSE IF r.status >= 400 /\ r.status < 600
    THEN Outcome("raise", 0, HTTPError(r.status, url), NoBody)
    ELSE IF ~r.json_ok
    THEN Outcome("raise", 0, OtherError("JSONDecodeError"), NoBody)
    ELSE Outcome("return", 0, NoError, r.body)

\* mutant: the sleep after a 429 is always the default, whatever Retry-After says
get_json_default_wait(url, r) ==
    IF r.exc THEN Outcome("raise", 0, OtherError("RequestException"), NoBody)
    ELSE IF r.status = 429
    THEN IF r.retry_after.present /\ ~IsInt(r.retry_after.text)
         THEN Outcome("raise", 0, OtherError("ValueError"), NoBody)
         ELSE Outcome("sleep", DefaultRetryAfter, NoError, NoBody)
    ELSE IF r.status >= 400 /\ r.status < 600
    THEN Outcome("raise", 0, HTTPError(r.status, url), NoBody)
    ELSE IF ~r.json_ok
    THEN Outcome("raise", 0, OtherError("JSONDecodeError"), NoBody)
    ELSE Outcome("return", 0, NoError, r.body)

get_json(url, r) ==
    IF r.exc THEN Outcome("raise", 0, OtherError("RequestException"), NoBody)
    ELSE IF r.status = 429
    THEN IF r.retry_after.present
         THEN IF IsInt(r.retry_after.text)
              THEN Outcome("sleep", IntValue(r.retry_after.text), NoError, NoBody)
              ELSE Outcome("raise", 0, OtherError("ValueError"), NoBody)
         ELSE Outcome("sleep", DefaultRetryAfter, NoError, NoBody)
    ELSE IF r.status >= 400 /\ r.status < 600
    THEN Outcome("raise", 0, HTTPError(r.status, url), NoBody)
    ELSE IF ~r.json_ok
    THEN Outcome("raise", 0, OtherError("JSONDecodeError"), NoBody)
    ELSE Outcome("return", 0, NoError, r.body)

(***************************************************************************)
(* CalendlyService.paginate                                                *)
(***************************************************************************)
\* resp.get("pagination") or resp.get("meta", {}).get("pagination") or {}
PaginationOf(pairs) ==
    IF HasKey(pairs, "pagination") /\ ValueOf(pairs, "pagination").nonempty
    THEN ValueOf(pairs, "pagination")
    ELSE IF HasKey(pairs, "meta") /\ ValueOf(pairs, "meta").haspag
            /\ ValueOf(pairs, "meta").pag.nonempty
    THEN ValueOf(pairs, "meta").pag
    ELSE NoBlock

\* mutant: results = items instead of results.extend(items)
paginate_step_overwrites(res, resp) ==
    IF resp.kind # "map"
    THEN [raised |-> TRUE, err |-> OtherError("AttributeError"),
          results |-> _extract_items_from_response(resp),
          next_url |-> "", next_params |-> {}]
    ELSE LET next_page == PaginationOf(resp.pairs).next_page
         IN  [raised |-> FALSE, err |-> NoError,
              results |-> _extract_items_from_response(resp),
              next_url |-> next_page, next_params |-> {}]

\* mutant: the explicit query parameters are sent again with the cursor URL
paginate_step_keeps_params(res, resp) ==
    IF resp.kind # "map"
    THEN [raised |-> TRUE, err |-> OtherError("AttributeError"),
          results |-> res \o _extract_items_from_response(resp),
          next_url |-> "", next_params |-> {}]
    ELSE LET next_page == PaginationOf(resp.pairs).next_page
         IN  [raised |-> FALSE, err |-> NoError,
              results |-> res \o _extract_items_from_response(resp),
              next_url |-> next_page, next_params |-> pparams]

\* one pass of the loop body after get_json returned resp:
\* [raised, err, results, next_url, next_params]
paginate_step(res, resp) ==
    IF resp.kind # "map"
    THEN \* resp.get on a list or a scalar
         [raised |-> TRUE, err |-> OtherError("AttributeError"),
          results |-> res \o _extract_items_from_response(resp),
          next_url |-> "", next_params |-> {}]
    ELSE LET next_page == PaginationOf(resp.pairs).next_page
         IN  [raised |-> FALSE, err |-> NoError,
              results |-> res \o _extract_items_from_response(resp),
              next_url |-> next_page, next_params |-> {}]

ExtractIdle == xresp = NoBody /\ xitems = <<>> /\ xpc = "idle"

ClientIdle ==
    /\ purl = "" /\ pparams = {} /\ results = <<>> /\ next_url = ""
    /\ next_params = {} /\ ppc = "idle" /\ gwait = 0 /\ perr = NoError
    /\ lastReq = NoRequest /\ reqCount = 0 /\ lastResp = NoResponse
    /\ arrived = <<>> /\ n429 = 0 /\ elapsed = 0

\* requests.get(url, params) is sent and answered by r
Exchange(r) ==
    /\ ppc = "fetch"
    /\ lastReq' = [url |-> next_url, params |-> next_params]
    /\ reqCount' = reqCount + 1
    /\ lastResp' = [r EXCEPT !.body = NoBody]
    /\ elapsed' = 0

\* a 429 response: get_json sleeps, or fails on the header
GetJsonRateLimited ==
    \E r \in RateLimitResponses :
       /\ n429 < Max429
       /\ Exchange(r)
       /\ n429' = n429 + 1
       /\ LET o == get_json(next_url, r)
          IN  IF o.kind = "sleep"
              THEN /\ ppc' = "sleep" /\ gwait' = o.wait /\ perr' = perr
              ELSE /\ ppc' = "raised" /\ perr' = o.err /\ gwait' = 0
       /\ UNCHANGED <<purl, pparams, results, next_url, next_params, arrived>>
       /\ UNCHANGED extractVars
    /\ UNCHANGED <<serverVars, analyticsVars>>

\* mutant: when the sleep is over get_json sleeps again instead of sending
\* the request ("continue" missing its effect)
GetJsonWake_sleeps_again ==
    /\ ppc = "sleep"
    /\ elapsed >= gwait
    /\ gwait > 0
    /\ elapsed' = 0
    /\ UNCHANGED <<purl, pparams, results, next_url, next_params, ppc, gwait, perr,
                   lastReq, reqCount, lastResp, arrived, n429>>
    /\ UNCHANGED extractVars
    /\ UNCHANGED <<serverVars, analyticsVars>>

\* asyncio.sleep(wait) is over, which it is once wait time units have gone
\* by (at once when wait is 0): "continue" sends the same request again
GetJsonWake ==
    /\ ppc = "sleep"
    /\ elapsed >= gwait
    /\ ppc' = "fetch"
    /\ UNCHANGED <<purl, pparams, results, next_url, next_params, gwait, perr,
                   lastReq, reqCount, lastResp, arrived, n429, elapsed>>
    /\ UNCHANGED extractVars
    /\ UNCHANGED <<serverVars, analyticsVars>>

\* a time unit goes by while get_json is in asyncio.sleep(wait)
SleepTick ==
    /\ ppc = "sleep"
    /\ elapsed < gwait
    /\ elapsed' = elapsed + 1
    /\ UNCHANGED <<purl, pparams, results, next_url, next_params, ppc, gwait, perr,
                   lastReq, reqCount, lastResp, arrived, n429>>
    /\ UNCHANGED extractVars
    /\ UNCHANGED <<serverVars, analyticsVars>>

\* requests.get raises, raise_for_status raises or response.json() raises:
\* the exception leaves get_json and paginate
GetJsonFails ==
    \E r \in ErrorResponses \cup NotJsonResponses \cup {NetworkFailure} :
       /\ Exchange(r)
       /\ LET o == get_json(next_url, r)
          IN  IF o.kind = "raise"
              THEN /\ ppc' = "raised" /\ perr' = o.err /\ gwait' = 0
                   /\ UNCHANGED <<results, next_url, next_params, arrived>>
              ELSE IF o.kind = "sleep"
              THEN /\ ppc' = "sleep" /\ gwait' = o.wait /\ perr' = perr
                   /\ UNCHANGED <<results, next_url, next_params, arrived>>
              ELSE LET st == paginate_step(results, o.value)
                   IN  /\ results' = st.results
                       /\ next_url' = st.next_url
                       /\ next_params' = st.next_params
                       /\ arrived' = Append(arrived, [url |-> next_url,
                                params |-> next_params, body |-> o.value])
                       /\ ppc' = IF st.raised THEN "raised"
                                 ELSE IF st.next_url # "" THEN "fetch" ELSE "returned"
                       /\ perr' = st.err /\ gwait' = 0
       /\ UNCHANGED <<purl, pparams, n429>>
       /\ UNCHANGED extractVars
    /\ UNCHANGED <<serverVars, analyticsVars>>

\* get_json returns a JSON body: paginate extends results and follows the
\* cursor, returns, or fails on a body that is no mapping
GetJsonReturns ==
    \E r \in JsonResponses(Len(arrived) + 1) :
       /\ Exchange(r)
       /\ LET o == get_json(next_url, r)
          IN  IF o.kind = "raise"
              THEN /\ ppc' = "raised" /\ perr' = o.err /\ gwait' = 0
                   /\ UNCHANGED <<results, next_url, next_params, arrived>>
              ELSE IF o.kind = "sleep"
              THEN /\ ppc' = "sleep" /\ gwait' = o.wait /\ perr' = perr
                   /\ UNCHANGED <<results, next_url, next_params, arrived>>
              ELSE LET st == paginate_step(results, o.value)
                   IN  /\ results' = st.results
                       /\ next_url' = st.next_url
                       /\ next_params' = st.next_params
                       /\ arrived' = Append(arrived, [url |-> next_url,
                                params |-> next_params, body |-> o.value])
                       /\ ppc' = IF st.raised THEN "raised"
                                 ELSE IF st.next_url # "" THEN "fetch" ELSE "returned"
                       /\ perr' = st.err /\ gwait' = 0
       /\ UNCHANGED <<purl, pparams, n429>>
       /\ UNCHANGED extractVars
    /\ UNCHANGED <<serverVars, analyticsVars>>


(***************************************************************************)
(* The bulk downloader and the request handlers.                           *)
(*                                                                         *)
(* The process runs one asyncio event loop.  A handler without an await    *)
(* runs to its end once it has the loop.  get_json calls the blocking      *)
(* requests.get, so a download task keeps the loop from the moment it      *)
(* starts or wakes until it reaches asyncio.sleep (after a 429) or ends:   *)
(* `running` names the task that has the loop, 0 when the loop is free.    *)
(* background_tasks.add_task only registers download_task: it is run after *)
(* the response of the start request has been sent, and sending is an      *)
(* await, so other handlers may run between the two.                       *)
(***************************************************************************)
TotalSteps == 6

\* int((step / total_steps) * 100)
\* mutant: int(step / total) * 100, the quotient truncated before it is scaled
Percentage_truncated_first(step, total) == (step \div total) * 100

\* int((step / total_steps) * 100): the product is rounded down
Percentage(step, total) == (step * 100) \div total

Tasks == 1..MaxTasks

\* the account data the Calendly API serves during one behaviour:
\*   me           the /users/me body: for each of the four places of the
\*                organization URI, "<missing>" (no such key), "" (null or
\*                empty) or the URI held there
\*   event_types  the /event_types collection
Missing == "<missing>"

MeShapes ==
    {[resource_current_organization |-> a, current_organization |-> b,
      data_current_organization |-> c, organization |-> d] :
        a \in {Missing, "", "org-a"}, b \in {Missing, "", "org-b"},
        c \in {Missing, "", "org-c"}, d \in {Missing, "", "org-d"}}

MeOfCalendly ==
    [resource_current_organization |-> "org-a", current_organization |-> Missing,
     data_current_organization |-> Missing, organization |-> Missing]

NoMe ==
    [resource_current_organization |-> Missing, current_organization |-> Missing,
     data_current_organization |-> Missing, organization |-> Missing]

\* event types: uri "" stands for an object without a uri
EventTypes ==
    {[uri |-> "t1", name |-> "Cleverly Introduction"],
     [uri |-> "t2", name |-> "Other"],
     [uri |-> "", name |-> "Draft"]}

EventTypeLists == UNION {[1..n -> EventTypes] : n \in 0..MaxEventTypes}

\* a URI is the sequence of its path segments; <<>> stands for no uri
NoUri == <<>>
Event(id) == [uri |-> <<"scheduled_events", id>>, _event_type_uri |-> "",
              _event_type_name |-> ""]
EventWithoutUri == [uri |-> NoUri, _event_type_uri |-> "", _event_type_name |-> ""]

\* /scheduled_events?event_type=t
ScheduledEventsOf(t) ==
    IF t = "t1" THEN <<Event("e1")>>
    ELSE IF t = "t2" THEN <<EventWithoutUri, Event("e2")>>
    ELSE <<>>

EventIds == {"e1", "e2"}

\* /scheduled_events/{id}/invitees
InviteesOf(id) ==
    IF id = "e1" THEN <<"invitee-1", "invitee-2">>
    ELSE IF id = "e2" THEN <<"invitee-3">>
    ELSE <<>>

ApiDatasets ==
    {[me |-> me, event_types |-> <<[uri |-> "t1", name |-> "Cleverly Introduction"]>>] :
        me \in MeShapes}
    \cup {[me |-> MeOfCalendly, event_types |-> l] : l \in EventTypeLists}

(***************************************************************************)
(* CalendlyService.download_all_data: the organization URI                 *)
(***************************************************************************)
\* a or b for strings that may be missing
OrElse(a, b) == IF a # Missing /\ a # "" THEN a ELSE b

\* try: me["resource"]["current_organization"]
\* except: me.get("current_organization") or me.get("data", {}).get(...) or
\*         me.get("organization")
\* "" and Missing are the falsy results ("if not org_uri")
org_uri_of(me) ==
    IF me.resource_current_organization # Missing
    THEN me.resource_current_organization
    ELSE OrElse(me.current_organization,
            OrElse(me.data_current_organization, me.organization))

HasOrg(me) == org_uri_of(me) # Missing /\ org_uri_of(me) # ""

\* _get_event_name(et) == "Cleverly Introduction"
RECURSIVE CleverlyCount(_)
CleverlyCount(ets) ==
    IF ets = <<>> THEN 0
    ELSE CleverlyCount(Tail(ets))
         + (IF Head(ets).name = "Cleverly Introduction" THEN 1 ELSE 0)

\* event_id = event_uri.split('/')[-1] if '/' in event_uri else event_uri
EventIdOf(uri) == uri[Len(uri)]

(***************************************************************************)
(* State of the server.                                                    *)
(***************************************************************************)
NoResult == [kind |-> "none", error |-> "", event_types |-> 0,
             cleverly_introduction_events |-> 0, scheduled_events |-> 0,
             invitees |-> 0]

ErrorResult(msg) == [NoResult EXCEPT !.kind = "error", !.error = msg]

\* a download task: its position, whether it is in asyncio.sleep, the locals
\* of download_all_data, what download_all_data returned or raised, and the
\* log of its fetches that ended (<<step or resource kind, index, succeeded>>,
\* successes only for the per-resource fetches of steps 5 and 6), and the
\* steps it passed to update_progress, in order
NoTask ==
    [pc |-> "none", sleeping |-> FALSE, org_uri |-> "", event_types |-> <<>>,
     i |-> 0, event_type_count |-> 0, all_scheduled_events |-> <<>>,
     j |-> 0, event_count |-> 0, invitee_count |-> 0, result |-> NoResult,
     fetched |-> <<>>, steps |-> <<>>]

NoFile == [exists |-> FALSE, content |-> <<>>]
File(c) == [exists |-> TRUE, content |-> c]

NoFiles ==
    [users_me |-> [exists |-> FALSE, content |-> NoMe],
     organization_memberships |-> NoFile,
     users |-> NoFile,
     event_types |-> NoFile,
     scheduled_events |-> NoFile,
     invitees |-> [e \in EventIds |-> NoFile]]

NoReply == [endpoint |-> "", status |-> "", progress |-> 0, current_step |-> 0,
            total_steps |-> 0, is_downloading |-> FALSE, error |-> ""]

\* Python's None, as the value of download_state["error"]
None == "<None>"

InitDownloadState ==
    [is_downloading |-> FALSE, progress |-> 0, message |-> "", error |-> None,
     step_name |-> "", details |-> ""]

InitDownloadProgress ==
    [current_step |-> 0, total_steps |-> TotalSteps, step_name |-> "",
     details |-> "", percentage |-> 0]

\* CalendlyService.update_progress
update_progress(step, step_name, details) ==
    [current_step |-> step, total_steps |-> TotalSteps, step_name |-> step_name,
     details |-> details, percentage |-> Percentage(step, TotalSteps)]

\* the task after it wrote the record prog with update_progress
Reported(tk, prog) == [tk EXCEPT !.steps = Append(@, prog.current_step)]

\* index of the first event type at or after i that has a uri
\* ("if not event_type_uri: continue"), Len + 1 when there is none
RECURSIVE NextEventType(_, _)
NextEventType(ets, i) ==
    IF i > Len(ets) THEN i
    ELSE IF ets[i].uri # "" THEN i
    ELSE NextEventType(ets, i + 1)

\* index of the first scheduled event at or after j that has a uri
\* ("if not event_uri: continue"), Len + 1 when there is none
RECURSIVE NextEvent(_, _)
NextEvent(evs, j) ==
    IF j > Len(evs) THEN j
    ELSE IF evs[j].uri # NoUri THEN j
    ELSE NextEvent(evs, j + 1)

\* the mapping download_all_data returns on success
Summary(tk) ==
    [kind |-> "summary", error |-> "",
     event_types |-> Len(tk.event_types),
     cleverly_introduction_events |-> CleverlyCount(tk.event_types),
     scheduled_events |-> Len(tk.all_scheduled_events),
     invitees |-> tk.invitee_count]

\* mutant: the completion is reported as step 5
InviteesLoop_completes_at_5(tk, prog, fl, j0) ==
    LET j == NextEvent(tk.all_scheduled_events, j0)
        every10th == update_progress(6, "Fetching invitees", "Processing event n/m")
        complete == update_progress(5, "Download complete",
                                    "All data downloaded successfully!")
    IN  IF j <= Len(tk.all_scheduled_events)
        THEN [task |-> [(IF (tk.event_count + 1) % 10 = 0
                         THEN Reported(tk, every10th) ELSE tk)
                        EXCEPT !.pc = "s6", !.j = j, !.event_count = @ + 1],
              progress |-> IF (tk.event_count + 1) % 10 = 0 THEN every10th ELSE prog,
              files |-> fl]
        ELSE [task |-> [Reported(tk, complete)
                        EXCEPT !.pc = "ret", !.j = j, !.result = Summary(tk)],
              progress |-> complete,
              files |-> fl]

\* the invitees loop from index j0 on, up to its next request or to the
\* return statement: [task, progress, files]
InviteesLoop(tk, prog, fl, j0) ==
    LET j == NextEvent(tk.all_scheduled_events, j0)
        every10th == update_progress(6, "Fetching invitees", "Processing event n/m")
        complete == update_progress(6, "Download complete",
                                    "All data downloaded successfully!")
    IN  IF j <= Len(tk.all_scheduled_events)
        THEN [task |-> [(IF (tk.event_count + 1) % 10 = 0
                         THEN Reported(tk, every10th) ELSE tk)
                        EXCEPT !.pc = "s6", !.j = j, !.event_count = @ + 1],
              progress |-> IF (tk.event_count + 1) % 10 = 0 THEN every10th ELSE prog,
              files |-> fl]
        ELSE [task |-> [Reported(tk, complete)
                        EXCEPT !.pc = "ret", !.j = j, !.result = Summary(tk)],
              progress |-> complete,
              files |-> fl]

\* the scheduled-events loop from index i0 on, up to its next request; after
\* the loop scheduled_events.json is written and the invitees loop entered
ScheduledEventsLoop(tk, prog, fl, i0) ==
    LET i == NextEventType(tk.event_types, i0)
        every5th == update_progress(5, "Fetching scheduled events",
                                    "Processing event type n/m: name")
        step6 == update_progress(6, "Fetching invitees", "Getting attendee information...")
    IN  IF i <= Len(tk.event_types)
        THEN [task |-> [(IF (tk.event_type_count + 1) % 5 = 0
                         THEN Reported(tk, every5th) ELSE tk)
                        EXCEPT !.pc = "s5", !.i = i, !.event_type_count = @ + 1],
              progress |-> IF (tk.event_type_count + 1) % 5 = 0 THEN every5th ELSE prog,
              files |-> fl]
        ELSE InviteesLoop(Reported([tk EXCEPT !.i = i], step6),
                          step6,
                          [fl EXCEPT !.scheduled_events = File(tk.all_scheduled_events)],
                          1)

\* "event[__event_type_name] = event_name; event[_event_type_uri] = ..."
Tagged(evs, et) ==
    [k \in DOMAIN evs |->
        [evs[k] EXCEPT !._event_type_name = et.name, !._event_type_uri = et.uri]]

(***************************************************************************)
(* endpoints.py                                                            *)
(***************************************************************************)
\* mutant: is_downloading is reset in the try block instead of the finally
\* clause, so an exception leaves it set
download_task_end_without_finally(ds, result) ==
    IF result.kind = "exception"
    THEN [ds EXCEPT !.error = result.error,
                    !.message = "Download failed",
                    !.progress = 0]
    ELSE IF result.kind = "error"
    THEN [ds EXCEPT !.error = result.error,
                    !.message = "Download failed",
                    !.progress = 0,
                    !.is_downloading = FALSE]
    ELSE [ds EXCEPT !.progress = 100,
                    !.message = "Download completed successfully",
                    !.step_name = "Complete",
                    !.details = "Downloaded n event types, m events",
                    !.is_downloading = FALSE]

\* download_task, after download_all_data returned or raised: the new
\* download_state
download_task_end(ds, result) ==
    IF result.kind = "exception"
    THEN [ds EXCEPT !.error = result.error,
                    !.message = "Download failed",
                    !.progress = 0,
                    !.is_downloading = FALSE]
    ELSE IF result.kind = "error"
    THEN [ds EXCEPT !.error = result.error,
                    !.message = "Download failed",
                    !.progress = 0,
                    !.is_downloading = FALSE]
    ELSE [ds EXCEPT !.progress = 100,
                    !.message = "Download completed successfully",
                    !.step_name = "Complete",
                    !.details = "Downloaded n event types, m events",
                    !.is_downloading = FALSE]

\* what the server actions leave alone: the client and extractor variables
\* other than the 429 count
ClientRest == <<xresp, xitems, xpc, purl, pparams, results, next_url, next_params,
                ppc, gwait, perr, lastReq, reqCount, lastResp, arrived, elapsed,
                data_dir, dp, df, analytics, apc>>

ServerIdle ==
    /\ download_state = InitDownloadState
    /\ download_progress = InitDownloadProgress
    /\ tasks = [t \in Tasks |-> NoTask]
    /\ running = 0
    /\ files = NoFiles
    /\ reply = NoReply

\* the first task slot not used yet
FreeTask == CHOOSE t \in Tasks : tasks[t].pc = "none" /\ \A u \in 1..(t - 1) : tasks[u].pc # "none"

\* the event loop taken for free whenever no response is being sent, as it
\* would be if the download task's requests did not block
LoopFree_while_running == reply = NoReply

\* the event loop can run a handler or resume a task: no download task is
\* running and the response of the last handler has been sent
LoopFree == running = 0 /\ reply = NoReply

\* a download task that was registered and has not finished
InFlight(t) == tasks[t].pc \notin {"none", "done"}

\* download_calendly_data / refresh_data, is_downloading false: download_task
\* is registered as a background task and "started" is answered
StartAccepted(endpoint) ==
    /\ LoopFree
    /\ ~download_state.is_downloading
    /\ \E t \in Tasks : tasks[t].pc = "none"
    /\ tasks' = [tasks EXCEPT ![FreeTask].pc = "scheduled"]
    /\ reply' = [NoReply EXCEPT !.endpoint = endpoint, !.status = "started"]
    /\ UNCHANGED <<download_state, download_progress, running, files, api, n429>>
    /\ UNCHANGED ClientRest

\* download_calendly_data / refresh_data, is_downloading true
StartRejected(endpoint) ==
    /\ LoopFree
    /\ download_state.is_downloading
    /\ reply' = [NoReply EXCEPT !.endpoint = endpoint,
                                    !.status = "already_downloading",
                                    !.progress = download_state.progress]
    /\ UNCHANGED <<download_state, download_progress, tasks, running, files, api, n429>>
    /\ UNCHANGED ClientRest

\* get_download_status
GetDownloadStatus ==
    /\ LoopFree
    /\ download_state' =
          IF download_state.is_downloading
          THEN [download_state EXCEPT
                   !.progress = download_progress.percentage,
                   !.step_name = download_progress.step_name,
                   !.details = download_progress.details,
                   !.message = "step_name - details"]
          ELSE download_state
    /\ reply' = [endpoint |-> "download-status", status |-> "",
                     progress |-> download_state'.progress,
                     current_step |-> download_progress.current_step,
                     total_steps |-> download_progress.total_steps,
                     is_downloading |-> download_state'.is_downloading,
                     error |-> download_state'.error]
    /\ UNCHANGED <<download_progress, tasks, running, files, api, n429>>
    /\ UNCHANGED ClientRest

\* the endpoints that read the data directory
ReconcilerEndpoints == {"cleverly-introduction", "data-preview", "raw-data"}

\* get_cleverly_analytics / get_data_preview / get_raw_data, as the download
\* sees them: the handler looks at no field of download_state, reads the data
\* directory as it is when the event loop runs it, and writes nothing
Reconcile(endpoint) ==
    /\ LoopFree
    /\ reply' = [NoReply EXCEPT !.endpoint = endpoint,
                                !.status = IF files.event_types.exists
                                           THEN "data read" ELSE "no data"]
    /\ UNCHANGED <<download_state, download_progress, tasks, running, files, api, n429>>
    /\ UNCHANGED ClientRest

\* download_task begins: the state is reset, download_all_data is entered and
\* blocks in the request for /users/me
TaskStart(t) ==
    /\ LoopFree
    /\ tasks[t].pc = "scheduled"
    /\ download_state' = [is_downloading |-> TRUE, progress |-> 0,
                          message |-> "Starting download...", error |-> None,
                          step_name |-> "Initializing", details |-> ""]
    /\ download_progress' = update_progress(1, "Fetching user information",
                                "Getting your Calendly account details...")
    /\ tasks' = [tasks EXCEPT ![t] = [Reported(@, download_progress') EXCEPT !.pc = "s1"]]
    /\ running' = t
    /\ UNCHANGED <<files, api, reply, n429>>
    /\ UNCHANGED ClientRest

Fetching(t) == tasks[t].pc \in {"s1", "s2", "s3", "s4", "s5", "s6"}

HasLoop(t) == running = t /\ ~tasks[t].sleeping

\* the request in flight is answered 429 (Retry-After absent or a number):
\* get_json awaits asyncio.sleep and the loop is free
FetchRateLimited(t) ==
    /\ HasLoop(t) /\ Fetching(t)
    /\ n429 < Max429
    /\ n429' = n429 + 1
    /\ tasks' = [tasks EXCEPT ![t].sleeping = TRUE]
    /\ running' = 0
    /\ UNCHANGED <<download_state, download_progress, files, api, reply>>
    /\ UNCHANGED ClientRest

\* the sleep is over: get_json sends the same request again
FetchWake(t) ==
    /\ LoopFree
    /\ tasks[t].sleeping
    /\ tasks' = [tasks EXCEPT ![t].sleeping = FALSE]
    /\ running' = t
    /\ UNCHANGED <<download_state, download_progress, files, api, reply, n429>>
    /\ UNCHANGED ClientRest

\* step 1: /users/me is answered; users_me.json is written and the
\* organization URI extracted
Step1(t) ==
    /\ HasLoop(t) /\ tasks[t].pc = "s1"
    /\ files' = [files EXCEPT !.users_me = [exists |-> TRUE, content |-> api.me]]
    /\ IF HasOrg(api.me)
       THEN /\ download_progress' = update_progress(2, "Fetching organization memberships",
                                        "Getting team member information...")
            /\ tasks' = [tasks EXCEPT ![t] = [Reported(@, download_progress')
                                              EXCEPT !.pc = "s2",
                                                     !.org_uri = org_uri_of(api.me)]]
       ELSE /\ tasks' = [tasks EXCEPT ![t].pc = "ret", ![t].result =
                          ErrorResult("Could not find organization URI in user data")]
            /\ UNCHANGED download_progress
    /\ UNCHANGED <<download_state, running, api, reply, n429>>
    /\ UNCHANGED ClientRest

\* step 2: the organization memberships are fetched and written
Step2(t) ==
    /\ HasLoop(t) /\ tasks[t].pc = "s2"
    /\ files' = [files EXCEPT !.organization_memberships = File(<<"membership-1">>)]
    /\ download_progress' = update_progress(3, "Fetching users", "Getting user profiles...")
    /\ tasks' = [tasks EXCEPT ![t] = [Reported(@, download_progress') EXCEPT !.pc = "s3"]]
    /\ UNCHANGED <<download_state, running, api, reply, n429>>
    /\ UNCHANGED ClientRest

\* step 3: the users are fetched and written
Step3(t) ==
    /\ HasLoop(t) /\ tasks[t].pc = "s3"
    /\ files' = [files EXCEPT !.users = File(<<"user-1">>)]
    /\ download_progress' = update_progress(4, "Fetching event types",
                                "Getting all event type configurations...")
    /\ tasks' = [tasks EXCEPT ![t] = [Reported(@, download_progress') EXCEPT !.pc = "s4"]]
    /\ UNCHANGED <<download_state, running, api, reply, n429>>
    /\ UNCHANGED ClientRest

\* step 4: the event types are fetched and written; step 5 begins
Step4(t) ==
    /\ HasLoop(t) /\ tasks[t].pc = "s4"
    /\ LET step5 == update_progress(5, "Fetching scheduled events",
                                    "Getting booking history...")
           st == ScheduledEventsLoop(
                    Reported([tasks[t] EXCEPT !.event_types = api.event_types], step5),
                    step5,
                    [files EXCEPT !.event_types = File(api.event_types)],
                    1)
       IN  /\ tasks' = [tasks EXCEPT ![t] = st.task]
           /\ download_progress' = st.progress
           /\ files' = st.files
    /\ UNCHANGED <<download_state, running, api, reply, n429>>
    /\ UNCHANGED ClientRest

\* a terminal failure of get_json or paginate in steps 1 to 4 reaches the
\* outer except clause, which returns the error descriptor; escapes = TRUE
\* stands for that clause raising itself, so that the exception leaves
\* download_all_data
FatalFailure(t, escapes) ==
    /\ HasLoop(t) /\ tasks[t].pc \in {"s1", "s2", "s3", "s4"}
    /\ tasks' = [tasks EXCEPT ![t].pc = "ret", ![t].result =
                   [NoResult EXCEPT !.kind = IF escapes THEN "exception" ELSE "error",
                                    !.error = IF escapes THEN "exception text"
                                              ELSE "Failed to download data: exception text"],
                                ![t].fetched = Append(@, <<tasks[t].pc, 0, FALSE>>)]
    /\ UNCHANGED <<download_state, download_progress, running, files, api, reply, n429>>
    /\ UNCHANGED ClientRest

\* step 5, one event type: its scheduled events are fetched, tagged and
\* appended; the loop goes on
Step5Ok(t) ==
    /\ HasLoop(t) /\ tasks[t].pc = "s5"
    /\ LET tk == tasks[t]
           et == tk.event_types[tk.i]
           scheduled == Tagged(ScheduledEventsOf(et.uri), et)
           st == ScheduledEventsLoop(
                    [tk EXCEPT !.all_scheduled_events = @ \o scheduled,
                               !.fetched = Append(@, <<"scheduled_events", tk.i, TRUE>>)],
                    download_progress, files, tk.i + 1)
       IN  /\ tasks' = [tasks EXCEPT ![t] = st.task]
           /\ download_progress' = st.progress
           /\ files' = st.files
    /\ UNCHANGED <<download_state, running, api, reply, n429>>
    /\ UNCHANGED ClientRest

\* mutant: the items of the pages that arrived before the failure are kept
Step5Fail_keeps_first_page(t) ==
    /\ HasLoop(t) /\ tasks[t].pc = "s5"
    /\ LET tk == tasks[t]
           et == tk.event_types[tk.i]
           scheduled == Tagged(ScheduledEventsOf(et.uri), et)
           partial == IF scheduled = <<>> THEN <<>> ELSE <<Head(scheduled)>>
           st == ScheduledEventsLoop(
                    [tk EXCEPT !.all_scheduled_events = @ \o partial,
                               !.fetched = Append(@, <<"scheduled_events", tk.i, FALSE>>)],
                    download_progress, files, tk.i + 1)
       IN  /\ tasks' = [tasks EXCEPT ![t] = st.task]
           /\ download_progress' = st.progress
           /\ files' = st.files
    /\ UNCHANGED <<download_state, running, api, reply, n429>>
    /\ UNCHANGED ClientRest

\* step 5, one event type: paginate fails; "except Exception: continue"
Step5Fail(t) ==
    /\ HasLoop(t) /\ tasks[t].pc = "s5"
    /\ LET tk == tasks[t]
           st == ScheduledEventsLoop(
                    [tk EXCEPT !.fetched = Append(@, <<"scheduled_events", tk.i, FALSE>>)],
                    download_progress, files, tk.i + 1)
       IN  /\ tasks' = [tasks EXCEPT ![t] = st.task]
           /\ download_progress' = st.progress
           /\ files' = st.files
    /\ UNCHANGED <<download_state, running, api, reply, n429>>
    /\ UNCHANGED ClientRest

\* step 6, one scheduled event: its invitees are fetched and written to
\* invitees/<event_id>.json; the loop goes on
Step6Ok(t) ==
    /\ HasLoop(t) /\ tasks[t].pc = "s6"
    /\ LET tk == tasks[t]
           event_id == EventIdOf(tk.all_scheduled_events[tk.j].uri)
           invitees == InviteesOf(event_id)
           st == InviteesLoop(
                    [tk EXCEPT !.invitee_count = @ + Len(invitees),
                               !.fetched = Append(@, <<"invitees", tk.j, TRUE>>)],
                    download_progress,
                    [files EXCEPT !.invitees[event_id] = File(invitees)],
                    tk.j + 1)
       IN  /\ tasks' = [tasks EXCEPT ![t] = st.task]
           /\ download_progress' = st.progress
           /\ files' = st.files
    /\ UNCHANGED <<download_state, running, api, reply, n429>>
    /\ UNCHANGED ClientRest

\* mutant: the invitees loop has no try of its own, the failure reaches the
\* outer except clause
Step6Fail_aborts(t) ==
    /\ HasLoop(t) /\ tasks[t].pc = "s6"
    /\ tasks' = [tasks EXCEPT ![t].pc = "ret",
                              ![t].result = ErrorResult("Failed to download data: exception text"),
                              ![t].fetched = Append(@, <<"invitees", tasks[t].j, FALSE>>)]
    /\ UNCHANGED <<download_state, download_progress, running, files, api, reply, n429>>
    /\ UNCHANGED ClientRest

\* step 6, one scheduled event: paginate fails; "except Exception: continue"
Step6Fail(t) ==
    /\ HasLoop(t) /\ tasks[t].pc = "s6"
    /\ LET tk == tasks[t]
           st == InviteesLoop(
                    [tk EXCEPT !.fetched = Append(@, <<"invitees", tk.j, FALSE>>)],
                    download_progress, files, tk.j + 1)
       IN  /\ tasks' = [tasks EXCEPT ![t] = st.task]
           /\ download_progress' = st.progress
           /\ files' = st.files
    /\ UNCHANGED <<download_state, running, api, reply, n429>>
    /\ UNCHANGED ClientRest

\* download_all_data has returned or raised: download_task records the
\* outcome, resets is_downloading (finally) and ends; of the locals only the
\* result is kept
TaskFinish(t) ==
    /\ HasLoop(t) /\ tasks[t].pc = "ret"
    /\ download_state' = download_task_end(download_state, tasks[t].result)
    /\ tasks' = [tasks EXCEPT ![t] = [NoTask EXCEPT !.pc = "done",
                                                    !.result = tasks[t].result]]
    /\ running' = 0
    /\ UNCHANGED <<download_progress, files, api, reply, n429>>
    /\ UNCHANGED ClientRest

\* the response of the handler has been sent
ReplySent ==
    /\ reply # NoReply
    /\ reply' = NoReply
    /\ UNCHANGED <<download_state, download_progress, tasks, running, files, api, n429>>
    /\ UNCHANGED ClientRest

DownloadStep(t) ==
    \/ TaskStart(t)
    \/ FetchRateLimited(t)
    \/ FetchWake(t)
    \/ Step1(t)
    \/ Step2(t)
    \/ Step3(t)
    \/ Step4(t)
    \/ \E escapes \in BOOLEAN : FatalFailure(t, escapes)
    \/ Step5Ok(t)
    \/ Step5Fail(t)
    \/ Step6Ok(t)
    \/ Step6Fail(t)
    \/ TaskFinish(t)

(***************************************************************************)
(* The analytics endpoints: DataProcessor reads the files of data_dir,     *)
(* builds the table, and AnalyticsService aggregates it.                   *)
(***************************************************************************)
MaxTypes == 2       \* event types in event_types.json
MaxScheduled == 2   \* events in scheduled_events.json
MaxInvitees == 2    \* invitees in one invitees/<event id>.json

\* the name load_data compares event type names with
CohortName == "Cleverly Introduction"

\* URIs are paths; the last segment is the identifier
EtUri(k) == <<"event_types", k>>
SeUri(k) == <<"scheduled_events", k>>
InvUri(k, i) == <<"scheduled_events", k, "invitees", i>>
MissingUri == <<Missing>>  \* no such key
EmptyId == 0               \* the empty string as an identifier
LastSegment(uri) == uri[Len(uri)]

\* an event type URI no event type of event_types.json has
UnknownType == <<"event_types", 0>>

\* timestamps of the files, and what pandas makes of a value that is none
TS1 == "2024-01-05T10:00:00Z"
TS2 == "2024-02-10T15:30:00Z"
NaT == "NaT"
Timestamps == {TS1, TS2}

\* the values of internal_note in the files: Missing (no such key), None
\* (null), the empty string, blanks, and labels
InternalNotes == {Missing, None, "", "   ", "Plan A", " Plan B "}

\* a status that is a JSON object, not a string: value_counts() cannot hash it
MalformedStatus == "<object>"

\* one event type of event_types.json
EventType(name, uri, note, created) ==
    [name |-> name, uri |-> uri, internal_note |-> note, created_at |-> created]

\* one event of scheduled_events.json; _event_type_name is the tag step 4 of
\* the download adds
ScheduledEvent(uri, etype, tag, status, start) ==
    [uri |-> uri, event_type |-> etype, _event_type_name |-> tag,
     status |-> status, start_time |-> start]

\* one invitee of invitees/<event id>.json
Invitee(uri, status) == [uri |-> uri, status |-> status, created_at |-> TS1]

NoInvitees == [exists |-> FALSE, files |-> [k \in {} |-> NoFile]]

DataDir(ets, ses, inv) == [event_types |-> ets, scheduled_events |-> ses, invitees |-> inv]

\* invitees/ holding the given files, keyed by file stem
InviteesDir(fs) == [exists |-> TRUE, files |-> fs]

SeqsUpTo(S, n) == UNION {[1..k -> S] : k \in 0..n}

TSAt(i) == IF i % 2 = 1 THEN TS1 ELSE TS2

\* the event types a file holds at position i: a cohort event type with any
\* internal_note and with or without a creation time, an event type of
\* another name, one whose name differs from the cohort name only in case,
\* and a cohort event type without a uri
TypeChoices ==
    {[kind |-> "cohort", note |-> n, created |-> c] :
        n \in InternalNotes, c \in {"", TS1}}
    \cup {[kind |-> k, note |-> "Plan A", created |-> TS1] :
            k \in {"other", "lowercase", "nouri"}}

TypeAt(i, c) ==
    CASE c.kind = "cohort" -> EventType(CohortName, EtUri(i), c.note, c.created)
      [] c.kind = "other" -> EventType("Other Meeting", EtUri(i), c.note, c.created)
      [] c.kind = "lowercase" -> EventType("cleverly introduction", EtUri(i), c.note, c.created)
      [] c.kind = "nouri" -> EventType(CohortName, MissingUri, c.note, c.created)

EventTypeRecords ==
    {[i \in DOMAIN f |-> TypeAt(i, f[i])] : f \in SeqsUpTo(TypeChoices, MaxTypes)}

\* the events a file holds at position i: of the first or second event
\* type, of an event type event_types.json does not have, or without an
\* event_type; tagged with the cohort name or not; active or canceled; one
\* event without a start time; and one whose status is a JSON object
EventChoices ==
    {[etype |-> t, tag |-> g, status |-> s, dated |-> TRUE] :
        t \in {EtUri(1), EtUri(2), UnknownType, MissingUri},
        g \in {"", CohortName}, s \in {"active", "canceled"}}
    \cup {[etype |-> EtUri(1), tag |-> CohortName, status |-> "active", dated |-> FALSE],
          [etype |-> EtUri(1), tag |-> CohortName, status |-> MalformedStatus, dated |-> TRUE]}

EventAt(i, c) ==
    ScheduledEvent(SeUri(i), c.etype, c.tag, c.status, IF c.dated THEN TSAt(i) ELSE "")

EventLists ==
    {[i \in DOMAIN f |-> EventAt(i, f[i])] : f \in SeqsUpTo(EventChoices, MaxScheduled)}

\* the statuses of the invitees of one file
StatusLists == SeqsUpTo({"active", "canceled"}, MaxInvitees)

InviteeFile(k, c) ==
    IF c.file
    THEN File([i \in DOMAIN c.statuses |-> Invitee(InvUri(k, i), c.statuses[i])])
    ELSE NoFile

FileChoices ==
    {[file |-> FALSE, statuses |-> <<>>]}
    \cup {[file |-> TRUE, statuses |-> l] : l \in StatusLists}

\* event_types.json varies; the other files are one of a few
TypeDirs ==
    {DataDir(ets, ses, inv) :
        ets \in {NoFile} \cup {File(l) : l \in EventTypeRecords},
        ses \in {NoFile, File(<<>>),
                 File(<<ScheduledEvent(SeUri(1), EtUri(1), CohortName, "active", TS1)>>),
                 File(<<ScheduledEvent(SeUri(1), UnknownType, CohortName, "canceled", TS2)>>)},
        inv \in {NoInvitees,
                 InviteesDir([k \in {1} |-> File(<<Invitee(InvUri(1, 1), "active")>>)])}}

FixedTypes ==
    {<<EventType(CohortName, EtUri(1), "Plan A", TS1)>>,
     <<EventType(CohortName, EtUri(1), "Plan A", TS1),
       EventType(CohortName, EtUri(2), Missing, TS2)>>,
     <<EventType(CohortName, EtUri(1), " Plan B ", TS1),
       EventType(CohortName, EtUri(1), "Plan A", TS1)>>,
     <<EventType("Other Meeting", EtUri(1), "Plan A", TS1)>>}

\* scheduled_events.json varies
EventDirs ==
    {DataDir(File(ets), File(l), inv) :
        ets \in FixedTypes, l \in EventLists,
        inv \in {NoInvitees,
                 InviteesDir([k \in {} |-> NoFile]),
                 InviteesDir([k \in {1} |-> File(<<Invitee(InvUri(1, 1), "active")>>)]),
                 InviteesDir([k \in {1} |->
                                File(<<Invitee(InvUri(1, 1), "active"),
                                       Invitee(InvUri(1, 2), MalformedStatus)>>)])}}

\* the files of invitees/ vary: for each event, no file or any list
InviteeDirsOf(n) ==
    {DataDir(File(<<EventType(CohortName, EtUri(1), "Plan A", TS1)>>),
             File([i \in 1..n |->
                     ScheduledEvent(SeUri(i), IF i = 1 THEN EtUri(1) ELSE UnknownType,
                                    CohortName, "active", TSAt(i))]),
             InviteesDir([k \in 1..n |-> InviteeFile(k, g[k])])) :
        g \in [1..n -> FileChoices]}

InviteeDirs == UNION {InviteeDirsOf(n) : n \in 1..MaxScheduled}

DataDirs == TypeDirs \cup EventDirs \cup InviteeDirs

(***************************************************************************)
(* DataProcessor                                                           *)
(***************************************************************************)
NewProcessor ==
    [ok |-> FALSE, cleverly_events |-> <<>>, cleverly_scheduled_events |-> <<>>,
     invitees_data |-> <<>>]

check_data_exists(dir) == dir.event_types.exists

InSeq(x, s) == \E i \in DOMAIN s : s[i] = x

IsCohortType_any_case(event_data) ==
    event_data.name \in {CohortName, "cleverly introduction"}

IsCohortType(event_data) == event_data.name = CohortName

\* event_uri.split('/')[-1] if event_uri else event.get('id', ''): the
\* events of the files have no id
EventId(event) ==
    IF event.uri # NoUri /\ event.uri # MissingUri THEN LastSegment(event.uri) ELSE EmptyId

\* the invitees of one file, each with the event it belongs to
InviteesOfFile(file, event) ==
    [i \in DOMAIN file.content |->
        [uri |-> file.content[i].uri, status |-> file.content[i].status,
         created_at |-> file.content[i].created_at, event_data |-> event]]

RECURSIVE InviteesFrom(_, _, _)
InviteesFrom(inv, events, i) ==
    IF i > Len(events) THEN <<>>
    ELSE LET event_id == EventId(events[i])
             here == IF event_id \in DOMAIN inv.files /\ inv.files[event_id].exists
                     THEN InviteesOfFile(inv.files[event_id], events[i])
                     ELSE <<>>
         IN  here \o InviteesFrom(inv, events, i + 1)

\* the invitees_data load_invitees_data leaves
load_invitees_data(dir, cleverly_scheduled_events) ==
    IF ~dir.invitees.exists THEN <<>>
    ELSE InviteesFrom(dir.invitees, cleverly_scheduled_events, 1)

\* the DataProcessor after load_data, ok being the value returned. A cohort
\* event type without a uri raises KeyError in the first loop: the except
\* clause returns False with the cohort event types before it in
\* cleverly_events and the other two lists as __init__ left them.
load_data(dir) ==
    IF ~dir.event_types.exists THEN NewProcessor
    ELSE LET event_types == dir.event_types.content
             bad == {i \in DOMAIN event_types :
                        IsCohortType(event_types[i]) /\ event_types[i].uri = MissingUri}
         IN  IF bad # {}
             THEN LET b == CHOOSE i \in bad : \A j \in bad : i <= j
                  IN  [NewProcessor EXCEPT
                         !.cleverly_events =
                             SelectSeq(SubSeq(event_types, 1, b - 1), IsCohortType)]
             ELSE LET cleverly_events == SelectSeq(event_types, IsCohortType)
                      cleverly_event_uris ==
                          [i \in DOMAIN cleverly_events |-> cleverly_events[i].uri]
                      Retained(event) ==
                          \/ InSeq(event.event_type, cleverly_event_uris)
                          \/ event._event_type_name = CohortName
                      cleverly_scheduled_events ==
                          IF ~dir.scheduled_events.exists THEN <<>>
                          ELSE SelectSeq(dir.scheduled_events.content, Retained)
                  IN  [ok |-> TRUE,
                       cleverly_events |-> cleverly_events,
                       cleverly_scheduled_events |-> cleverly_scheduled_events,
                       invitees_data |-> load_invitees_data(dir, cleverly_scheduled_events)]

\* pd.to_datetime(errors='coerce') on a value of a date column
to_datetime(v) == IF v \in Timestamps THEN v ELSE NaT

\* event.get('event_type', '')
EventTypeUriOf(event) == IF event.event_type = MissingUri THEN NoUri ELSE event.event_type

\* event_type.get('internal_note', 'No Internal Note')
NoteOfType(event_type) ==
    IF event_type.internal_note = Missing THEN "No Internal Note"
    ELSE event_type.internal_note

InternalNoteOf_first_type(cleverly_events, event_type_uri) ==
    IF cleverly_events = <<>> THEN "Unknown" ELSE NoteOfType(cleverly_events[1])

\* the internal_note of a row: that of the first cohort event type with the
\* event's event type URI, "Unknown" when there is none
InternalNoteOf(cleverly_events, event_type_uri) ==
    LET matching == {i \in DOMAIN cleverly_events :
                        cleverly_events[i].uri = event_type_uri}
    IN  IF matching = {} THEN "Unknown"
        ELSE NoteOfType(cleverly_events[CHOOSE i \in matching : \A j \in matching : i <= j])

EmptyDataFrame == [kind |-> "empty", rows |-> <<>>]

_create_dataframe_from_invitees(p) ==
    [kind |-> "invitees",
     rows |-> [i \in DOMAIN p.invitees_data |->
        LET invitee == p.invitees_data[i]
            event_data == invitee.event_data
        IN  [invitee_id |-> invitee.uri,
             event_id |-> event_data.uri,
             event_type_uri |-> EventTypeUriOf(event_data),
             internal_note |-> InternalNoteOf(p.cleverly_events, EventTypeUriOf(event_data)),
             status |-> invitee.status,
             created_at |-> to_datetime(invitee.created_at),
             scheduled_event_start_time |-> to_datetime(event_data.start_time)]]]

_create_dataframe_from_scheduled_events(p) ==
    [kind |-> "scheduled_events",
     rows |-> [i \in DOMAIN p.cleverly_scheduled_events |->
        LET event == p.cleverly_scheduled_events[i]
        IN  [event_id |-> event.uri,
             event_type_uri |-> EventTypeUriOf(event),
             internal_note |-> InternalNoteOf(p.cleverly_events, EventTypeUriOf(event)),
             status |-> event.status,
             scheduled_event_start_time |-> to_datetime(event.start_time)]]]

_create_dataframe_from_event_types(p) ==
    [kind |-> "event_types",
     rows |-> [i \in DOMAIN p.cleverly_events |->
        LET event_type == p.cleverly_events[i]
        IN  [event_type_uri |-> event_type.uri,
             name |-> event_type.name,
             internal_note |-> NoteOfType(event_type),
             created_at |-> to_datetime(event_type.created_at)]]]

create_analytics_dataframe_events_first(p) ==
    IF p.cleverly_scheduled_events # <<>> THEN _create_dataframe_from_scheduled_events(p)
    ELSE IF p.invitees_data # <<>> THEN _create_dataframe_from_invitees(p)
    ELSE IF p.cleverly_events # <<>> THEN _create_dataframe_from_event_types(p)
    ELSE EmptyDataFrame

create_analytics_dataframe(p) ==
    IF p.invitees_data # <<>> THEN _create_dataframe_from_invitees(p)
    ELSE IF p.cleverly_scheduled_events # <<>> THEN _create_dataframe_from_scheduled_events(p)
    ELSE IF p.cleverly_events # <<>> THEN _create_dataframe_from_event_types(p)
    ELSE EmptyDataFrame

\* df.columns
Columns(d) == IF d.rows = <<>> THEN {} ELSE DOMAIN d.rows[1]

(***************************************************************************)
(* AnalyticsService. pandas is the 2.x line, where resample('M') is        *)
(* accepted. Rates are kept to their integer part.                         *)
(***************************************************************************)
EmptyMap == [k \in {} |-> 0]

\* value_counts().to_dict() of a column
Histogram(column) ==
    [k \in {column[i] : i \in DOMAIN column} |->
        Cardinality({i \in DOMAIN column : column[i] = k})]

\* str.strip() on the values of internal_note
Strip(s) ==
    CASE s = "   " -> ""
      [] s = " Plan B " -> "Plan B"
      [] OTHER -> s

IsLabel_not_null(note) == note # None

\* a value of internal_note that is a label: not null, not blank
IsLabel(note) == note # None /\ Strip(note) # ""

\* the components pandas reads from a timestamp
HourOf(ts) == IF ts = TS1 THEN "10" ELSE "15"
DayNameOf(ts) == IF ts = TS1 THEN "Friday" ELSE "Saturday"
MonthNameOf(ts) == IF ts = TS1 THEN "January" ELSE "February"
IsWeekend(ts) == ts = TS2
YearMonthOf(ts) == IF ts = TS1 THEN "2024-01" ELSE "2024-02"

_get_best_date_column(d) ==
    IF "scheduled_event_start_time" \in Columns(d) THEN "scheduled_event_start_time"
    ELSE IF "created_at" \in Columns(d) THEN "created_at"
    ELSE None

\* float(active / total * 100)
Rate(rows) ==
    (Cardinality({i \in DOMAIN rows : rows[i].status = "active"}) * 100) \div Len(rows)

StatusDistribution(d, rows) ==
    IF "status" \in Columns(d) THEN Histogram([i \in DOMAIN rows |-> rows[i].status]) ELSE EmptyMap

\* df['status'].value_counts() raises TypeError: a status cannot be hashed
StatusCountsRaise(d, rows) ==
    "status" \in Columns(d) /\ \E i \in DOMAIN rows : rows[i].status = MalformedStatus

\* _generate_summary_metrics raises: nothing in it catches the TypeError
SummaryRaises(d) == StatusCountsRaise(d, d.rows)

_generate_summary_metrics(d) ==
    LET note_series == SelectSeq(d.rows, LAMBDA r : IsLabel(r.internal_note))
    IN  [total_events |-> Len(d.rows),
         status_distribution |-> StatusDistribution(d, d.rows),
         internal_note_distribution |->
             IF "internal_note" \in Columns(d)
             THEN Histogram([i \in DOMAIN note_series |-> note_series[i].internal_note])
             ELSE EmptyMap]

_analyze_by_internal_note(d) ==
    IF "internal_note" \notin Columns(d) THEN EmptyMap
    ELSE LET unique_notes ==
                 {n \in {d.rows[i].internal_note : i \in DOMAIN d.rows} : IsLabel(n)}
             NoteDf(note) == SelectSeq(d.rows, LAMBDA r : r.internal_note = note)
             \* except Exception: continue
             processed == {n \in unique_notes : ~StatusCountsRaise(d, NoteDf(n))}
         IN  [note \in processed |->
                 LET note_df == NoteDf(note)
                 IN  [internal_note |-> note,
                      total_events |-> Len(note_df),
                      status_distribution |-> StatusDistribution(d, note_df),
                      conversion_rate |->
                          IF "status" \in Columns(d) THEN Rate(note_df) ELSE 0]]

DefaultTemporal ==
    [hourly_distribution |-> EmptyMap, daily_distribution |-> EmptyMap,
     monthly_distribution |-> EmptyMap, weekday_vs_weekend |-> EmptyMap,
     seasonal_trends |-> EmptyMap]

_analyze_weekday_weekend(rows, date_col) ==
    [k \in {"weekday", "weekend"} |->
        Cardinality({i \in DOMAIN rows : IsWeekend(rows[i][date_col]) = (k = "weekend")})]

\* resample('M').size(): the timestamps of the files are in two
\* consecutive months, so no month between the first and the last is empty
_analyze_seasonal_trends(rows, date_col) ==
    LET monthly == Histogram([i \in DOMAIN rows |-> YearMonthOf(rows[i][date_col])])
    IN  [monthly_counts |-> monthly,
         trend |-> IF Cardinality(DOMAIN monthly) > 1
                   THEN IF monthly["2024-02"] > monthly["2024-01"]
                        THEN "increasing" ELSE "declining"
                   ELSE "stable"]

_analyze_temporal_patterns(d) ==
    LET date_col == _get_best_date_column(d)
    IN  IF date_col = None THEN DefaultTemporal
        ELSE LET df_with_dates == SelectSeq(d.rows, LAMBDA r : r[date_col] # NaT)
             IN  IF df_with_dates = <<>> THEN DefaultTemporal
                 ELSE [hourly_distribution |->
                           Histogram([i \in DOMAIN df_with_dates |-> HourOf(df_with_dates[i][date_col])]),
                       daily_distribution |->
                           Histogram([i \in DOMAIN df_with_dates |-> DayNameOf(df_with_dates[i][date_col])]),
                       monthly_distribution |->
                           Histogram([i \in DOMAIN df_with_dates |-> MonthNameOf(df_with_dates[i][date_col])]),
                       weekday_vs_weekend |->
                           _analyze_weekday_weekend(df_with_dates, date_col),
                       seasonal_trends |->
                           _analyze_seasonal_trends(df_with_dates, date_col)]

DefaultConversion ==
    [overall_conversion_rate |-> 0, conversion_by_internal_note |-> EmptyMap,
     conversion_by_service |-> EmptyMap, conversion_by_channel |-> EmptyMap,
     time_to_conversion |-> EmptyMap]

\* {'average_days': 2.5, 'median_days': 1.0}, in tenths of a day
_calculate_time_to_conversion ==
    [k \in {"average_days", "median_days"} |-> IF k = "average_days" THEN 25 ELSE 10]

\* the rows carry no answers to custom questions: the service and channel
\* columns are not in the table
_analyze_conversion_metrics(d) ==
    IF "status" \notin Columns(d) THEN DefaultConversion
    ELSE LET notes == {n \in {d.rows[i].internal_note : i \in DOMAIN d.rows} : IsLabel(n)}
         IN  [overall_conversion_rate |-> Rate(d.rows),
              conversion_by_internal_note |->
                  [n \in notes |-> Rate(SelectSeq(d.rows, LAMBDA r : r.internal_note = n))],
              conversion_by_service |-> EmptyMap,
              conversion_by_channel |-> EmptyMap,
              time_to_conversion |-> _calculate_time_to_conversion]

\* no row carries an answer to a custom question: the columns
\* interested_service and discovery_channel are not in the table
_analyze_custom_questions ==
    [service_interests |-> [distribution |-> EmptyMap, top_services |-> <<>>],
     discovery_channels |-> [distribution |-> EmptyMap, top_channels |-> <<>>]]

\* float(active_count / len(note_df)), in hundredths
_analyze_correlations(d) ==
    IF "internal_note" \notin Columns(d) \/ "status" \notin Columns(d)
    THEN [internal_note_success_rates |-> EmptyMap]
    ELSE LET notes == {n \in {d.rows[i].internal_note : i \in DOMAIN d.rows} : IsLabel(n)}
         IN  [internal_note_success_rates |->
                 [n \in notes |-> Rate(SelectSeq(d.rows, LAMBDA r : r.internal_note = n))]]

\* growth_rate = (last - first) / max(first, 1) * 100, as the fraction
\* num / den
_calculate_growth_metrics(rows, date_col) ==
    LET monthly == Histogram([i \in DOMAIN rows |-> YearMonthOf(rows[i][date_col])])
    IN  IF Cardinality(DOMAIN monthly) < 2
        THEN [growth_rate |-> [num |-> 0, den |-> 1], trend |-> "insufficient_data"]
        ELSE LET first_month == monthly["2024-01"]
                 last_month == monthly["2024-02"]
             IN  [growth_rate |-> [num |-> (last_month - first_month) * 100,
                                   den |-> IF first_month > 1 THEN first_month ELSE 1],
                  trend |-> IF last_month > first_month THEN "growing" ELSE "declining"]

DefaultTrends == [monthly_trends |-> EmptyMap, growth_metrics |-> EmptyMap]

_analyze_trends(d) ==
    LET date_col == _get_best_date_column(d)
    IN  IF date_col = None THEN DefaultTrends
        ELSE LET df_with_dates == SelectSeq(d.rows, LAMBDA r : r[date_col] # NaT)
             IN  IF df_with_dates = <<>> THEN DefaultTrends
                 ELSE [monthly_trends |->
                           Histogram([i \in DOMAIN df_with_dates |->
                                         YearMonthOf(df_with_dates[i][date_col])]),
                       growth_metrics |-> _calculate_growth_metrics(df_with_dates, date_col)]

\* the calendar day of a timestamp, as the day of the year 2024; a day
\* stands for its '%Y-%m-%d' key
DayOf(ts) == IF ts = TS1 THEN 5 ELSE 41

RECURSIVE SumOver(_, _)
SumOver(f, S) ==
    IF S = {} THEN 0
    ELSE LET k == CHOOSE x \in S : TRUE IN f[k] + SumOver(f, S \ {k})

DefaultOutliers == [high_activity_days |-> EmptyMap, anomaly_detection |-> FALSE]

\* resample('D').size() has one entry for every calendar day from the first
\* to the last dated row, 0 for a day without rows. abs(zscore) > 2 with the
\* population standard deviation is (n*x - S)^2 > 4*(n*Q - S^2) for n days
\* of sum S and sum of squares Q; when all counts are equal the scores are
\* nan and no day is flagged.
_detect_outliers(d) ==
    LET date_col == _get_best_date_column(d)
    IN  IF date_col = None THEN DefaultOutliers
        ELSE LET df_with_dates == SelectSeq(d.rows, LAMBDA r : r[date_col] # NaT)
                 days == {DayOf(df_with_dates[i][date_col]) : i \in DOMAIN df_with_dates}
                 first == CHOOSE x \in days : \A y \in days : x <= y
                 last == CHOOSE x \in days : \A y \in days : x >= y
                 daily_counts ==
                     [k \in first..last |->
                         Cardinality({i \in DOMAIN df_with_dates :
                                         DayOf(df_with_dates[i][date_col]) = k})]
                 n == last - first + 1
                 S == SumOver(daily_counts, first..last)
                 Q == SumOver([k \in first..last |-> daily_counts[k] * daily_counts[k]],
                              first..last)
                 outliers == {k \in first..last :
                                 (n * daily_counts[k] - S) * (n * daily_counts[k] - S)
                                     > 4 * (n * Q - S * S)}
             IN  IF Len(df_with_dates) < 3 THEN DefaultOutliers
                 ELSE IF n < 3 THEN DefaultOutliers
                 ELSE [high_activity_days |-> [k \in outliers |-> daily_counts[k]],
                       anomaly_detection |-> outliers # {}]

NoDataFrame == [kind |-> "none", rows |-> <<>>]     \* self.df = None

NoAnalytics ==
    [endpoint |-> "", status |-> 0, error |-> None, total_records |-> 0,
     summary |-> EmptyMap, internal_notes_analysis |-> EmptyMap,
     temporal_analysis |-> EmptyMap, conversion_analysis |-> EmptyMap,
     question_analysis |-> EmptyMap, correlation_analysis |-> EmptyMap,
     trend_analysis |-> EmptyMap, outlier_analysis |-> EmptyMap,
     preview |-> EmptyMap]

\* what generate_comprehensive_analytics leaves and returns. The eight
\* sections are computed inside one try: an exception in any of them makes
\* the except clause return the error alone.
generate_comprehensive_analytics(dir) ==
    LET p == load_data(dir)
        d == create_analytics_dataframe(p)
    IN  IF ~p.ok
        THEN [dp |-> p, df |-> NoDataFrame,
              result |-> [NoAnalytics EXCEPT
                  !.error = "Failed to load data. Please download Calendly data first."]]
        ELSE IF d.rows = <<>>
        THEN [dp |-> p, df |-> d,
              result |-> [NoAnalytics EXCEPT
                  !.error = "No data available for analysis. Please ensure Cleverly Introduction events exist."]]
        ELSE IF SummaryRaises(d)
        THEN [dp |-> p, df |-> d,
              result |-> [NoAnalytics EXCEPT
                  !.error = "Failed to generate analytics: unhashable type: 'dict'"]]
        ELSE [dp |-> p, df |-> d,
              result |-> [NoAnalytics EXCEPT
                  !.summary = _generate_summary_metrics(d),
                  !.internal_notes_analysis = _analyze_by_internal_note(d),
                  !.temporal_analysis = _analyze_temporal_patterns(d),
                  !.conversion_analysis = _analyze_conversion_metrics(d),
                  !.question_analysis = _analyze_custom_questions,
                  !.correlation_analysis = _analyze_correlations(d),
                  !.trend_analysis = _analyze_trends(d),
                  !.outlier_analysis = _detect_outliers(d)]]

AnalyticsIdle ==
    /\ data_dir = DataDir(NoFile, NoFile, NoInvitees)
    /\ dp = NewProcessor
    /\ df = NoDataFrame
    /\ analytics = NoAnalytics
    /\ apc = "idle"

AnalyticsRest == <<extractVars, clientVars, serverVars>>

\* GET /analytics/cleverly-introduction
GetCleverlyAnalytics ==
    /\ apc = "request"
    /\ IF ~check_data_exists(data_dir)
       THEN /\ analytics' = [NoAnalytics EXCEPT
                               !.endpoint = "cleverly-introduction", !.status = 404,
                               !.error = "No data available. Please download Calendly data first."]
            /\ UNCHANGED <<dp, df>>
       ELSE LET g == generate_comprehensive_analytics(data_dir)
            IN  /\ dp' = g.dp
                /\ df' = g.df
                /\ analytics' = [g.result EXCEPT
                                   !.endpoint = "cleverly-introduction",
                                   !.status = IF g.result.error # None THEN 500 ELSE 200]
    /\ apc' = "done"
    /\ UNCHANGED data_dir
    /\ UNCHANGED AnalyticsRest

\* GET /analytics/raw-data: the value load_data returns is not looked at
GetRawData ==
    /\ apc = "request"
    /\ IF ~check_data_exists(data_dir)
       THEN /\ analytics' = [NoAnalytics EXCEPT
                               !.endpoint = "raw-data", !.status = 200,
                               !.error = "No data available"]
            /\ UNCHANGED <<dp, df>>
       ELSE LET p == load_data(data_dir)
                d == create_analytics_dataframe(p)
            IN  /\ dp' = p
                /\ df' = d
                /\ analytics' = [NoAnalytics EXCEPT
                                   !.endpoint = "raw-data", !.status = 200,
                                   !.error = IF d.rows = <<>> THEN "No data available" ELSE None,
                                   !.total_records = Len(d.rows)]
    /\ apc' = "done"
    /\ UNCHANGED data_dir
    /\ UNCHANGED AnalyticsRest

\* the preview of a table without rows, or of no data at all
NoPreview(message) ==
    [total_events |-> 0, total_invitees |-> 0,
     internal_notes_distribution |-> EmptyMap, status_distribution |-> EmptyMap,
     date_range |-> [min_date |-> None, max_date |-> None],
     columns_available |-> {}, message |-> message]

\* min() and max() of the timestamps of a column
MinDate(dates) == IF TS1 \in dates THEN TS1 ELSE TS2
MaxDate(dates) == IF TS2 \in dates THEN TS2 ELSE TS1

\* what get_data_preview leaves and returns on a new DataProcessor: both
\* lists are empty, so load_data is called, and the value it returns is not
\* looked at. value_counts() leaves out null and nothing else.
get_data_preview(dir) ==
    IF ~check_data_exists(dir)
    THEN [dp |-> NewProcessor, df |-> NoDataFrame, raised |-> FALSE,
          preview |-> NoPreview("No data available. Please download Calendly data first.")]
    ELSE LET p == load_data(dir)
             d == create_analytics_dataframe(p)
             date_col == IF "scheduled_event_start_time" \in Columns(d)
                         THEN "scheduled_event_start_time" ELSE "created_at"
             dates == {d.rows[i][date_col] : i \in DOMAIN d.rows} \ {NaT}
             notes == SelectSeq(d.rows, LAMBDA r : r.internal_note # None)
         IN  IF d.rows = <<>>
             THEN [dp |-> p, df |-> d, raised |-> FALSE, preview |-> NoPreview("")]
             ELSE IF StatusCountsRaise(d, d.rows)
             THEN [dp |-> p, df |-> d, raised |-> TRUE, preview |-> EmptyMap]
             ELSE [dp |-> p, df |-> d, raised |-> FALSE,
                   preview |->
                     [total_events |->
                          IF p.cleverly_scheduled_events # <<>>
                          THEN Len(p.cleverly_scheduled_events) ELSE Len(p.cleverly_events),
                      total_invitees |-> Len(p.invitees_data),
                      internal_notes_distribution |->
                          Histogram([i \in DOMAIN notes |-> notes[i].internal_note]),
                      status_distribution |-> StatusDistribution(d, d.rows),
                      date_range |->
                          IF dates = {} THEN EmptyMap
                          ELSE [min_date |-> MinDate(dates), max_date |-> MaxDate(dates)],
                      columns_available |-> Columns(d),
                      message |-> ""]]

\* GET /analytics/data-preview; an exception in the handler is answered 500
GetDataPreview ==
    /\ apc = "request"
    /\ LET g == get_data_preview(data_dir)
       IN  /\ dp' = g.dp
           /\ df' = g.df
           /\ analytics' = [NoAnalytics EXCEPT
                              !.endpoint = "data-preview",
                              !.status = IF g.raised THEN 500 ELSE 200,
                              !.error = IF g.raised THEN "Internal Server Error" ELSE None,
                              !.preview = g.preview]
    /\ apc' = "done"
    /\ UNCHANGED data_dir
    /\ UNCHANGED AnalyticsRest

\* DataProcessor.load_data called on a new DataProcessor, whatever files
\* there are
LoadData ==
    /\ apc = "request"
    /\ dp' = load_data(data_dir)
    /\ analytics' = [NoAnalytics EXCEPT !.endpoint = "load_data"]
    /\ apc' = "done"
    /\ UNCHANGED <<data_dir, df>>
    /\ UNCHANGED AnalyticsRest

\* a request to an analytics endpoint, over any files
InitAnalytics ==
    /\ ExtractIdle /\ ClientIdle /\ ServerIdle
    /\ api = [me |-> NoMe, event_types |-> <<>>]
    /\ data_dir \in DataDirs
    /\ dp = NewProcessor
    /\ df = NoDataFrame
    /\ analytics = NoAnalytics
    /\ apc = "request"

NextAnalytics ==
    \/ LoadData
    \/ GetCleverlyAnalytics
    \/ GetDataPreview
    \/ GetRawData

SpecAnalytics == InitAnalytics /\ [][NextAnalytics]_vars

\* the server from its start: any requests, any account data with at most
\* one event type
Init ==
    /\ ExtractIdle /\ ClientIdle /\ ServerIdle /\ AnalyticsIdle
    /\ api \in {d \in ApiDatasets :
                  /\ Len(d.event_types) <= 1
                  /\ d.me \in {MeOfCalendly, NoMe}}

Next ==
    \/ \E e \in {"download-data", "refresh-data"} : StartAccepted(e)
    \/ \E e \in {"download-data", "refresh-data"} : StartRejected(e)
    \/ GetDownloadStatus
    \/ \E e \in ReconcilerEndpoints : Reconcile(e)
    \/ ReplySent
    \/ \E t \in Tasks : DownloadStep(t)

Spec == Init /\ [][Next]_vars

\* one download run from the moment its start request was accepted, over any
\* account data
InitRun ==
    /\ ExtractIdle /\ ClientIdle /\ AnalyticsIdle
    /\ download_state = InitDownloadState
    /\ download_progress = InitDownloadProgress
    /\ tasks = [t \in Tasks |-> IF t = 1 THEN [NoTask EXCEPT !.pc = "scheduled"] ELSE NoTask]
    /\ running = 0
    /\ files = NoFiles
    /\ reply = [NoReply EXCEPT !.endpoint = "download-data", !.status = "started"]
    /\ api \in ApiDatasets

NextRun ==
    \/ DownloadStep(1)
    \/ GetDownloadStatus
    \/ ReplySent

SpecRun == InitRun /\ [][NextRun]_vars

(***************************************************************************)
(* One call of paginate, answered by any responses.                        *)
(***************************************************************************)
\* paginate(url, params) was called and is about to call get_json
InitClient ==
    /\ ExtractIdle /\ ServerIdle /\ AnalyticsIdle /\ api = [me |-> NoMe, event_types |-> <<>>]
    /\ purl = "page1"
    /\ pparams \in {{}, {"organization"}, {"organization", "event_type"}}
    /\ results = <<>>
    /\ next_url = purl
    /\ next_params = pparams
    /\ ppc = "fetch"
    /\ gwait = 0 /\ perr = NoError
    /\ lastReq = NoRequest /\ reqCount = 0 /\ lastResp = NoResponse
    /\ arrived = <<>> /\ n429 = 0 /\ elapsed = 0

NextClient ==
    \/ GetJsonRateLimited
    \/ SleepTick
    \/ GetJsonWake
    \/ GetJsonFails
    \/ GetJsonReturns

SpecClient == InitClient /\ [][NextClient]_vars

\* the same call when time goes on, asyncio.sleep returns, and the server
\* answers every request that stays unanswered, in the end with a response
\* other than 429
SpecClientFair ==
    /\ SpecClient
    /\ WF_vars(SleepTick)
    /\ WF_vars(GetJsonWake)
    /\ WF_vars(GetJsonFails \/ GetJsonReturns)

(***************************************************************************)
(* The payloads the extractor is applied to.                               *)
(***************************************************************************)
KeyValuePairs ==
    {<<"collection", <<>>>>, <<"collection", <<ItemX, ItemY>>>>,
     <<"data", <<ItemY>>>>, <<"data", <<ItemZ, ItemX>>>>,
     <<"resources", <<ItemZ>>>>, <<"resources", <<ItemY, ItemY>>>>,
     <<"pagination", NoBlock>>,
     <<"pagination", [nonempty |-> TRUE, next_page |-> "u2"]>>,
     <<"meta", [haspag |-> FALSE, pag |-> NoBlock]>>,
     <<"meta", [haspag |-> TRUE, pag |-> [nonempty |-> TRUE, next_page |-> "u2"]]>>,
     <<"a", "1">>, <<"a", "2">>, <<"b", "1">>}

Mappings ==
    {s \in UNION {[1..n -> KeyValuePairs] : n \in 0..MaxKeys} :
        \A i, j \in DOMAIN s : i # j => s[i][1] # s[j][1]}

Payloads ==
    {[kind |-> "map", pairs |-> m, elems |-> <<>>] : m \in Mappings}
    \cup {[kind |-> "list", pairs |-> <<>>, elems |-> l] :
            l \in {<<>>, <<ItemX>>, <<ItemY, ItemX>>, <<ItemX, ItemX, ItemZ>>}}
    \cup {[kind |-> "other", pairs |-> <<>>, elems |-> <<>>]}


InitExtract ==
    /\ xresp \in Payloads /\ xitems = <<>> /\ xpc = "call"
    /\ ClientIdle /\ ServerIdle /\ AnalyticsIdle
    /\ api = [me |-> NoMe, event_types |-> <<>>]

ExtractCall ==
    /\ xpc = "call"
    /\ xitems' = _extract_items_from_response(xresp)
    /\ xpc' = "done"
    /\ UNCHANGED xresp
    /\ UNCHANGED clientVars
    /\ UNCHANGED <<serverVars, analyticsVars>>

NextExtract == ExtractCall

SpecExtract == InitExtract /\ [][NextExtract]_vars

(***************************************************************************)
(* C4: the extractor picks the item list by fixed priority: the value      *)
(* under collection if that key is present, else under data, else under    *)
(* resources; a mapping with none of the three yields one pseudo-item      *)
(* {k: v} per top-level key other than pagination and meta, in key order;  *)
(* a list payload is returned unchanged.                                   *)
(***************************************************************************)
OtherPairs(pairs) == SelectSeq(pairs, LAMBDA p : p[1] # "pagination" /\ p[1] # "meta")

C4_ExtractPriority ==
    xpc = "done" =>
       /\ (xresp.kind = "map" /\ HasKey(xresp.pairs, "collection"))
             => xitems = ValueOf(xresp.pairs, "collection")
       /\ (xresp.kind = "map" /\ ~HasKey(xresp.pairs, "collection")
               /\ HasKey(xresp.pairs, "data"))
             => xitems = ValueOf(xresp.pairs, "data")
       /\ (xresp.kind = "map" /\ ~HasKey(xresp.pairs, "collection")
               /\ ~HasKey(xresp.pairs, "data") /\ HasKey(xresp.pairs, "resources"))
             => xitems = ValueOf(xresp.pairs, "resources")
       /\ (xresp.kind = "map" /\ ~HasKey(xresp.pairs, "collection")
               /\ ~HasKey(xresp.pairs, "data") /\ ~HasKey(xresp.pairs, "resources"))
             => /\ Len(xitems) = Len(OtherPairs(xresp.pairs))
                /\ \A i \in DOMAIN xitems :
                      /\ xitems[i][1] = OtherPairs(xresp.pairs)[i][1]
                      /\ xitems[i][2] = OtherPairs(xresp.pairs)[i][2]
       /\ xresp.kind = "list" => xitems = xresp.elems

\* a mapping that holds all three list keys, data first, plus pagination: the
\* collection value is returned
C4_Witness ==
    /\ xpc = "done"
    /\ xresp.kind = "map"
    /\ Len(xresp.pairs) = 3
    /\ xresp.pairs[1][1] = "data"
    /\ xresp.pairs[2][1] = "resources"
    /\ xresp.pairs[3] = <<"collection", <<ItemX, ItemY>>>>
    /\ xitems = <<ItemX, ItemY>>

(***************************************************************************)
(* Properties of get_json and paginate, stated over SpecClient.            *)
(***************************************************************************)
\* the item list of a page, as the envelope rules give it
PageItems(body) ==
    IF HasKey(body.pairs, "collection") THEN ValueOf(body.pairs, "collection")
    ELSE IF HasKey(body.pairs, "data") THEN ValueOf(body.pairs, "data")
    ELSE IF HasKey(body.pairs, "resources") THEN ValueOf(body.pairs, "resources")
    ELSE OtherPairs(body.pairs)

RECURSIVE ConcatPages(_)
ConcatPages(pages) ==
    IF pages = <<>> THEN <<>>
    ELSE ConcatPages(SubSeq(pages, 1, Len(pages) - 1)) \o PageItems(pages[Len(pages)].body)

TopCursor(body) ==
    IF HasKey(body.pairs, "pagination") THEN ValueOf(body.pairs, "pagination").next_page
    ELSE ""

MetaCursor(body) ==
    IF HasKey(body.pairs, "meta") /\ ValueOf(body.pairs, "meta").haspag
    THEN ValueOf(body.pairs, "meta").pag.next_page
    ELSE ""

\* a cursor is present at response.pagination.next_page or at
\* response.meta.pagination.next_page
AnyCursor(body) == IF TopCursor(body) # "" THEN TopCursor(body) ELSE MetaCursor(body)

\* the cursor of the top-level pagination block when that block is present
\* and not empty, the one of meta.pagination otherwise
BlockCursor(body) ==
    IF HasKey(body.pairs, "pagination") /\ ValueOf(body.pairs, "pagination").nonempty
    THEN TopCursor(body)
    ELSE MetaCursor(body)

\* The statement of C2 as written: get_json never ends, by returning or by
\* failing, on a 429 response; after a 429 response it is asleep or about to
\* send the request again.
C2_NeverEndsOn429 ==
    (~lastResp.exc /\ lastResp.status = 429) => ppc \in {"sleep", "fetch"}

\* The statement of C3 as written: paginate returns only when the last page
\* holds no cursor at either place, every earlier page's cursor was followed,
\* and the result is the concatenation of the pages' items in arrival order.
C3_FollowsEveryCursor ==
    ppc = "returned" =>
       /\ results = ConcatPages(arrived)
       /\ arrived # <<>>
       /\ arrived[1].url = purl
       /\ \A i \in 1..(Len(arrived) - 1) :
             AnyCursor(arrived[i].body) # ""
             /\ arrived[i + 1].url = AnyCursor(arrived[i].body)
       /\ AnyCursor(arrived[Len(arrived)].body) = ""

\* C3, amended: paginate reads the cursor from response.pagination when that
\* block is present and not empty and from response.meta.pagination only
\* otherwise; it follows that cursor until it is absent, and its result is the
\* concatenation of the items of every page in arrival order (nothing dropped,
\* duplicated, deduplicated or reordered).
C3_FollowsBlockCursor ==
    ppc = "returned" =>
       /\ results = ConcatPages(arrived)
       /\ arrived # <<>>
       /\ arrived[1].url = purl
       /\ \A i \in 1..(Len(arrived) - 1) :
             BlockCursor(arrived[i].body) # ""
             /\ arrived[i + 1].url = BlockCursor(arrived[i].body)
       /\ BlockCursor(arrived[Len(arrived)].body) = ""

\* three pages of three envelope shapes, the first cursor under meta, the
\* second at top level, with a repeated item and pseudo-items in the result
C3_Witness ==
    /\ ppc = "returned"
    /\ Len(arrived) = 3
    /\ HasKey(arrived[1].body.pairs, "data")
    /\ MetaCursor(arrived[1].body) = "page2"
    /\ HasKey(arrived[2].body.pairs, "a")
    /\ TopCursor(arrived[2].body) = "page3"
    /\ HasKey(arrived[3].body.pairs, "collection")
    /\ results = <<ItemY, <<"a", "1">>, <<"b", "1">>, ItemX, ItemY>>
    /\ n429 > 0

IsHttpError(r) == ~r.exc /\ r.status >= 400 /\ r.status < 600 /\ r.status # 429

Started(t) == tasks[t].pc \notin {"none", "scheduled", "done"}

\* C1: at most one download run is in flight at any time; a start request
\* handled after another one was accepted and before that run has finished
\* schedules no second download task.
C1_AtMostOneRun ==
    Cardinality({t \in Tasks : InFlight(t)}) <= 1

\* the entries of a task's log for one kind of resource
LogOf(tk, kind) == SelectSeq(tk.fetched, LAMBDA e : e[1] = kind)

\* the indices a log holds, and whether it holds them in increasing order
Attempted(log) == {log[k][2] : k \in DOMAIN log}
Increasing(log) == \A k, l \in DOMAIN log : k < l => log[k][2] < log[l][2]

\* the scheduled events of the event types whose fetch succeeded, tagged, in
\* the order of the fetches
RECURSIVE ExpectedEvents(_, _)
ExpectedEvents(ets, log) ==
    IF log = <<>> THEN <<>>
    ELSE (IF Head(log)[3]
          THEN Tagged(ScheduledEventsOf(ets[Head(log)[2]].uri), ets[Head(log)[2]])
          ELSE <<>>) \o ExpectedEvents(ets, Tail(log))

\* the number of invitees of the events whose fetch succeeded
RECURSIVE ExpectedInvitees(_, _)
ExpectedInvitees(evs, log) ==
    IF log = <<>> THEN 0
    ELSE (IF Head(log)[3] THEN Len(InviteesOf(EventIdOf(evs[Head(log)[2]].uri))) ELSE 0)
         + ExpectedInvitees(evs, Tail(log))

\* C6: once steps 1 to 4 have succeeded, failures of single scheduled-events
\* or invitees fetches never abort the run.  When download_all_data returns,
\* every event type with a uri and every scheduled event with a uri has been
\* fetched, in list order, whether or not an earlier one failed;
\* scheduled_events.json holds the events of the event types that succeeded;
\* the invitee file of every event that succeeded is written; and the result
\* is the success summary over exactly these.
C6_PerResourceFailuresSkipped ==
    LET tk == tasks[1]
        sched == LogOf(tk, "scheduled_events")
        inv == LogOf(tk, "invitees")
        evs == tk.all_scheduled_events
    IN  (tk.pc = "ret" /\ tk.i >= 1) =>
           /\ Attempted(sched) = {i \in DOMAIN tk.event_types : tk.event_types[i].uri # ""}
           /\ Increasing(sched)
           /\ evs = ExpectedEvents(tk.event_types, sched)
           /\ files.scheduled_events = File(evs)
           /\ Attempted(inv) = {j \in DOMAIN evs : evs[j].uri # NoUri}
           /\ Increasing(inv)
           /\ \A e \in EventIds :
                 files.invitees[e] =
                    IF \E k \in DOMAIN inv : inv[k][3] /\ EventIdOf(evs[inv[k][2]].uri) = e
                    THEN File(InviteesOf(e))
                    ELSE NoFile
           /\ tk.result = [kind |-> "summary", error |-> "",
                           event_types |-> Len(tk.event_types),
                           cleverly_introduction_events |-> CleverlyCount(tk.event_types),
                           scheduled_events |-> Len(evs),
                           invitees |-> ExpectedInvitees(evs, inv)]

\* the scheduled events of the first event type could not be fetched, those
\* of the second were, and the invitees of its event could not: the run
\* returns its summary
C6_Witness ==
    /\ tasks[1].pc = "ret"
    /\ tasks[1].fetched = <<<<"scheduled_events", 1, FALSE>>,
                            <<"scheduled_events", 2, TRUE>>,
                            <<"invitees", 2, FALSE>>>>
    /\ tasks[1].result.kind = "summary"
    /\ tasks[1].result.scheduled_events = 2
    /\ files.scheduled_events.exists

\* C7: only steps 1 and 2 are mandatory; a terminal failure of the users
\* fetch, the event-types fetch or a fetch of steps 5 and 6 does not end the
\* run with an error.
C7_OnlyFirstTwoStepsMandatory ==
    LET tk == tasks[1]
    IN  (/\ tk.pc = "ret"
         /\ \E k \in DOMAIN tk.fetched : ~tk.fetched[k][3]
         /\ \A k \in DOMAIN tk.fetched :
               ~tk.fetched[k][3] => tk.fetched[k][1] \notin {"s1", "s2"})
        => tk.result.kind = "summary"

\* the resolution C8 describes: the first of the four places that holds a
\* non-empty value
org_uri_first_non_empty(me) ==
    OrElse(me.resource_current_organization,
        OrElse(me.current_organization,
            OrElse(me.data_current_organization, me.organization)))

\* C8: when step 1 has fetched the account profile, the organization URI is
\* the first non-empty value among resource.current_organization,
\* current_organization, data.current_organization and organization; the run
\* ends with "Could not find organization URI in user data" only when none of
\* the four holds one, and then no later step is executed.
C8_FirstNonEmptyOrganization ==
    LET tk == tasks[1]
        org == org_uri_first_non_empty(api.me)
    IN  (files.users_me.exists /\ tk.pc # "done") =>
           IF org \notin {Missing, ""}
           THEN tk.org_uri = org
           ELSE /\ tk.pc = "ret"
                /\ tk.result = ErrorResult("Could not find organization URI in user data")
                /\ ~files.organization_memberships.exists

\* C9: whenever a download task ends, is_downloading is false afterwards and
\* the error of a failed run is recorded with progress 0, whether
\* download_all_data returned its summary, returned an error or raised; and
\* is_downloading is false whenever no task is between its start and its end,
\* so that the next start request is accepted.
C9_FlagResetWhenRunEnds ==
    /\ []((\A t \in Tasks : ~Started(t)) => ~download_state.is_downloading)
    /\ [][\A t \in Tasks :
            (tasks[t].pc = "ret" /\ tasks'[t].pc = "done") =>
               /\ ~download_state'.is_downloading
               /\ tasks[t].result.kind \in {"error", "exception"} =>
                     /\ download_state'.error = tasks[t].result.error
                     /\ download_state'.progress = 0]_vars

\* a run has ended by an exception, the error is recorded, and the next start
\* request is answered "started"
C9_Witness ==
    /\ tasks[1].pc = "done"
    /\ tasks[1].result.kind = "exception"
    /\ ~download_state.is_downloading
    /\ download_state.error = "exception text"
    /\ download_state.progress = 0
    /\ tasks[2].pc = "scheduled"
    /\ reply.status = "started"

\* C10: a finished run leaves either a summary or an error, never both: once
\* a run has finished and is_downloading is false, the download state has
\* error = None with progress = 100, or an error with progress = 0.
C10_SummaryOrError ==
    ((\E t \in Tasks : tasks[t].pc = "done") /\ ~download_state.is_downloading) =>
       \/ download_state.error = None /\ download_state.progress = 100
       \/ download_state.error # None /\ download_state.progress = 0

(***************************************************************************)
(* Claims about progress, scheduling and the timing of get_json.           *)
(***************************************************************************)
\* the step a task position belongs to
StepOf(pc) ==
    CASE pc = "s1" -> 1 [] pc = "s2" -> 2 [] pc = "s3" -> 3
      [] pc = "s4" -> 4 [] pc = "s5" -> 5 [] pc = "s6" -> 6

\* C11: in every state of the progress record percentage is
\* current_step / total_steps * 100 rounded down, total_steps is 6 and
\* current_step is between 0 and total_steps; and whenever a download task
\* moves to a step, or returns its summary, the record is recomputed for
\* that step.
C11_ProgressRecord ==
    /\ [](/\ download_progress.total_steps = 6
          /\ download_progress.current_step \in 0..download_progress.total_steps
          /\ download_progress.percentage =
                (download_progress.current_step * 100) \div download_progress.total_steps)
    /\ [][\A t \in Tasks :
            /\ (tasks'[t].pc # tasks[t].pc /\ tasks'[t].pc \in {"s1", "s2", "s3", "s4", "s5", "s6"})
                  => download_progress'.current_step = StepOf(tasks'[t].pc)
            /\ (tasks'[t].pc # tasks[t].pc /\ tasks'[t].pc = "ret"
                   /\ tasks'[t].result.kind = "summary")
                  => /\ download_progress'.current_step = 6
                     /\ download_progress'.percentage = 100]_vars

\* a run is in step 5 and the record shows 83 percent
C11_Witness ==
    /\ \E t \in Tasks : tasks[t].pc = "s5"
    /\ download_progress.current_step = 5
    /\ download_progress.percentage = 83

\* C12: every network call of a run is a suspension point: while a download
\* task waits for the answer to a request, 429 or not, the event loop is
\* free, so that a status poll can be served and sees is_downloading with
\* the current step.
C12_NetworkCallsSuspend ==
    \A t \in Tasks : Fetching(t) => running # t

\* the wait a 429 response asks for: Retry-After, or 5 without the header
AskedWait(r) == IF r.retry_after.present THEN IntValue(r.retry_after.text) ELSE 5

\* C13: when get_json is about to send the request again after a 429
\* response, at least Retry-After time units (5 without the header) have
\* gone by since that response.
C13_WaitsRetryAfter ==
    (ppc = "fetch" /\ reqCount > 0 /\ ~lastResp.exc /\ lastResp.status = 429)
       => elapsed >= AskedWait(lastResp)

\* a 429 with Retry-After: 10 was answered and the request is sent again
\* after 10 time units
C13_Witness ==
    /\ ppc = "fetch"
    /\ lastResp.status = 429
    /\ lastResp.retry_after.present /\ lastResp.retry_after.text = "10"
    /\ elapsed = 10

\* the last response is a success with a JSON body
SuccessResponse(r) == ~r.exc /\ r.status >= 200 /\ r.status < 300 /\ r.json_ok

\* C14: when 429 responses do not go on forever, every sleep of get_json
\* ends with the request sent again, every call ends, and a success response
\* is returned to the caller as soon as it arrives.
C14_GetJsonCompletes ==
    /\ (ppc = "sleep") ~> (ppc = "fetch")
    /\ <>(ppc \in {"returned", "raised"})
    /\ [](SuccessResponse(lastResp) =>
            /\ ppc # "sleep"
            /\ Len(arrived) >= 1
            /\ arrived[Len(arrived)].url = lastReq.url
            /\ arrived[Len(arrived)].params = lastReq.params)

\* two 429 responses were slept through and the success response that
\* followed was returned
C14_Witness ==
    /\ n429 = 2
    /\ SuccessResponse(lastResp)
    /\ reqCount = 3
    /\ Len(arrived) = 1
    /\ ppc = "returned"


(***************************************************************************)
(* C15: the table is built at one granularity, chosen by strict priority:  *)
(* one row per loaded invitee record if any was loaded; otherwise one row  *)
(* per retained cohort scheduled event if any was retained; otherwise one  *)
(* row per cohort event type if there is any; otherwise no row.            *)
(***************************************************************************)
TableBuilt == apc = "done" /\ df # NoDataFrame

C15_GranularityByPriority ==
    TableBuilt =>
        IF dp.invitees_data # <<>>
        THEN /\ df.kind = "invitees"
             /\ Len(df.rows) = Len(dp.invitees_data)
             /\ \A i \in DOMAIN df.rows :
                    /\ df.rows[i].invitee_id = dp.invitees_data[i].uri
                    /\ df.rows[i].event_id = dp.invitees_data[i].event_data.uri
        ELSE IF dp.cleverly_scheduled_events # <<>>
        THEN /\ df.kind = "scheduled_events"
             /\ Len(df.rows) = Len(dp.cleverly_scheduled_events)
             /\ \A i \in DOMAIN df.rows :
                    df.rows[i].event_id = dp.cleverly_scheduled_events[i].uri
        ELSE IF dp.cleverly_events # <<>>
        THEN /\ df.kind = "event_types"
             /\ Len(df.rows) = Len(dp.cleverly_events)
             /\ \A i \in DOMAIN df.rows :
                    df.rows[i].event_type_uri = dp.cleverly_events[i].uri
        ELSE df.rows = <<>>

\* two invitees of one retained event: two rows, not one
C15_Witness ==
    /\ TableBuilt
    /\ Len(dp.invitees_data) = 2
    /\ Len(dp.cleverly_scheduled_events) = 1
    /\ Len(dp.cleverly_events) = 1
    /\ df.kind = "invitees"
    /\ Len(df.rows) = 2


(***************************************************************************)
(* C16: load_data never raises and returns a boolean: False when           *)
(* event_types.json is absent; True with an empty cohort when the file has *)
(* no event type named exactly the cohort name; True, with the scheduled   *)
(* event and invitee lists empty, when scheduled_events.json is missing,   *)
(* and True with no invitees when invitees/ is missing. It returns True    *)
(* exactly when event_types.json is there and each of its event types of   *)
(* the cohort name has a uri.                                              *)
(***************************************************************************)
\* load_data was called, by itself or by an endpoint
Loaded == apc = "done" /\ (analytics.endpoint = "load_data" \/ check_data_exists(data_dir))

\* every event type of the cohort name in event_types.json has a uri
CohortTypesHaveUri ==
    \A i \in DOMAIN data_dir.event_types.content :
        data_dir.event_types.content[i].name = CohortName
            => data_dir.event_types.content[i].uri # MissingUri

Analysed ==
    apc = "done" /\ analytics.endpoint = "cleverly-introduction" /\ analytics.status = 200

BlankNotes == {None, "", "   "}

RowsOfNote(note) == {i \in DOMAIN df.rows : df.rows[i].internal_note = note}

C17_BlankNotesExcluded ==
    Analysed =>
        LET distribution == analytics.summary.internal_note_distribution
            breakdown == analytics.internal_notes_analysis
            labels == {df.rows[i].internal_note : i \in DOMAIN df.rows} \ BlankNotes
        IN  /\ DOMAIN distribution \cap BlankNotes = {}
            /\ DOMAIN breakdown \cap BlankNotes = {}
            /\ DOMAIN distribution = labels
            /\ DOMAIN breakdown = labels
            /\ \A k \in labels :
                   /\ distribution[k] = Cardinality(RowsOfNote(k))
                   /\ breakdown[k].internal_note = k
                   /\ breakdown[k].total_events = Cardinality(RowsOfNote(k))
            /\ analytics.summary.total_events = Len(df.rows)

\* a row of blanks and a row with a label: one key, two events
C17_Witness ==
    /\ Analysed
    /\ Len(df.rows) = 2
    /\ df.rows[1].internal_note = "   "
    /\ df.rows[2].internal_note = "Plan A"
    /\ analytics.summary.total_events = 2
    /\ DOMAIN analytics.summary.internal_note_distribution = {"Plan A"}
    /\ DOMAIN analytics.internal_notes_analysis = {"Plan A"}


(***************************************************************************)
(* C18: the rows derived from a cohort event type that has no             *)
(* internal_note attribute carry no cohort label; when every cohort event  *)
(* type lacks the attribute, the cohort-label distribution of the summary  *)
(* is empty and the per-cohort breakdown is an empty mapping, while        *)
(* total_events is the number of rows.                                     *)
(***************************************************************************)
\* the cohort event types a row may come from: those with its event type URI
TypesOfRow(i) ==
    {j \in DOMAIN dp.cleverly_events :
        dp.cleverly_events[j].uri = df.rows[i].event_type_uri}

\* the row comes from a cohort event type without the attribute
FromTypeWithoutNote(i) ==
    /\ TypesOfRow(i) # {}
    /\ \A j \in TypesOfRow(i) : dp.cleverly_events[j].internal_note = Missing

C18_OmittedNoteGivesNoLabel ==
    Analysed =>
        /\ \A i \in DOMAIN df.rows :
               FromTypeWithoutNote(i) => df.rows[i].internal_note \in BlankNotes
        /\ (\A i \in DOMAIN df.rows : FromTypeWithoutNote(i))
              => /\ analytics.summary.internal_note_distribution = EmptyMap
                 /\ analytics.internal_notes_analysis = EmptyMap
        /\ analytics.summary.total_events = Len(df.rows)


(***************************************************************************)
(* C19: when scheduled_events.json is absent and there is a cohort event   *)
(* type, the table has one row per cohort event type, total_events is the  *)
(* number of cohort event types, and the temporal and the conversion       *)
(* analysis are their empty defaults, whatever the event types carry.      *)
(***************************************************************************)
CohortTypesOfFile == SelectSeq(data_dir.event_types.content, IsCohortType)

C19_EventTypesOnlyDefaults ==
    (Analysed /\ ~data_dir.scheduled_events.exists /\ CohortTypesOfFile # <<>>)
        => /\ df.kind = "event_types"
           /\ Len(df.rows) = Len(CohortTypesOfFile)
           /\ analytics.summary.total_events = Len(CohortTypesOfFile)
           /\ analytics.temporal_analysis = DefaultTemporal
           /\ analytics.conversion_analysis = DefaultConversion


(***************************************************************************)
(* C20: an event of scheduled_events.json whose event type URI no event    *)
(* type of event_types.json has does not make reconciliation fail, and     *)
(* every row built for it, at invitee or at scheduled-event granularity,   *)
(* has internal_note = "Unknown". Such an event is retained, and so has    *)
(* rows, only if it is tagged with the cohort name.                        *)
(***************************************************************************)
\* no event type of event_types.json has this URI
Unresolved(event_type_uri) ==
    \A j \in DOMAIN data_dir.event_types.content :
        data_dir.event_types.content[j].uri # event_type_uri

\* the events of scheduled_events.json as load_data retains them
EventsOfFile == data_dir.scheduled_events.content

C20_UnresolvedTypeIsUnknown ==
    /\ TableBuilt =>
          \A i \in DOMAIN df.rows :
              (df.kind \in {"invitees", "scheduled_events"}
                  /\ Unresolved(df.rows[i].event_type_uri))
                => df.rows[i].internal_note = "Unknown"
    /\ (Loaded /\ data_dir.event_types.exists /\ CohortTypesHaveUri)
          => /\ dp.ok
             /\ \A k \in DOMAIN EventsOfFile :
                    Unresolved(EventTypeUriOf(EventsOfFile[k]))
                      => (InSeq(EventsOfFile[k], dp.cleverly_scheduled_events)
                            <=> EventsOfFile[k]._event_type_name = CohortName)

\* two events, the second of an event type that is not in the file
C20_Witness ==
    /\ TableBuilt
    /\ df.kind = "scheduled_events"
    /\ Len(df.rows) = 2
    /\ df.rows[1].internal_note = "Plan A"
    /\ df.rows[2].event_type_uri = UnknownType
    /\ Unresolved(df.rows[2].event_type_uri)
    /\ df.rows[2].internal_note = "Unknown"

(***************************************************************************)
(* C21: a failure in one of the eight sections of                          *)
(* generate_comprehensive_analytics is local: when the table was built     *)
(* and has rows, the result is never the error alone; it has every section *)
(* that did not fail with its normally computed value.                     *)
(***************************************************************************)
\* generate_comprehensive_analytics got past loading and had rows to analyse
SectionsComputed ==
    /\ apc = "done" /\ analytics.endpoint = "cleverly-introduction"
    /\ dp.ok /\ df.rows # <<>>

C21_SectionFailuresAreLocal ==
    SectionsComputed =>
        /\ analytics.error = None
        /\ analytics.internal_notes_analysis = _analyze_by_internal_note(df)
        /\ analytics.temporal_analysis = _analyze_temporal_patterns(df)
        /\ analytics.conversion_analysis = _analyze_conversion_metrics(df)
        /\ analytics.question_analysis = _analyze_custom_questions
        /\ analytics.correlation_analysis = _analyze_correlations(df)
        /\ analytics.trend_analysis = _analyze_trends(df)
        /\ analytics.outlier_analysis = _detect_outliers(df)
        /\ ~SummaryRaises(df) => analytics.summary = _generate_summary_metrics(df)

(***************************************************************************)
(* C22: when the dated rows of the table fall on fewer than 3 distinct     *)
(* calendar days, outlier detection returns anomaly_detection = false and  *)
(* no high-activity day, however many rows there are and however far apart *)
(* the days are.                                                           *)
(***************************************************************************)
\* the calendar days the dated rows of the table fall on
DistinctDays ==
    LET date_col == _get_best_date_column(df)
    IN  IF date_col = None THEN {}
        ELSE {DayOf(df.rows[i][date_col]) :
                i \in {j \in DOMAIN df.rows : df.rows[j][date_col] # NaT}}

C22_FewDaysNoOutliers ==
    (Analysed /\ Cardinality(DistinctDays) < 3)
        => /\ analytics.outlier_analysis.anomaly_detection = FALSE
           /\ analytics.outlier_analysis.high_activity_days = EmptyMap

(***************************************************************************)
(* C23: the monthly-trend direction of the temporal analysis is            *)
(* insufficient_data when the dated rows span fewer than 2 months; with 2  *)
(* or more months it is increasing if the last month has more rows than    *)
(* the first, declining if it has fewer, and stable if they have as many.  *)
(***************************************************************************)
\* the dated rows of the table in a month
RowsInMonth(ym) ==
    LET date_col == _get_best_date_column(df)
    IN  Cardinality({i \in DOMAIN df.rows :
                        df.rows[i][date_col] # NaT /\ YearMonthOf(df.rows[i][date_col]) = ym})

C23_MonthlyTrendDirection ==
    (Analysed /\ analytics.temporal_analysis # DefaultTemporal)
        => analytics.temporal_analysis.seasonal_trends.trend =
              IF RowsInMonth("2024-01") = 0 \/ RowsInMonth("2024-02") = 0
              THEN "insufficient_data"
              ELSE IF RowsInMonth("2024-02") > RowsInMonth("2024-01") THEN "increasing"
              ELSE IF RowsInMonth("2024-02") < RowsInMonth("2024-01") THEN "declining"
              ELSE "stable"

(***************************************************************************)
(* C24: the cohort-label distribution of the preview has no key that comes *)
(* from an internal_note of null, the empty string or blanks only, and its *)
(* counts add up to the number of rows of the table with a valid label.    *)
(***************************************************************************)
\* GET /analytics/data-preview returned the preview of a table with rows
Previewed ==
    /\ apc = "done" /\ analytics.endpoint = "data-preview" /\ analytics.status = 200
    /\ df.rows # <<>>

C24_PreviewLabelsValid ==
    Previewed =>
        LET distribution == analytics.preview.internal_notes_distribution
        IN  /\ DOMAIN distribution \cap BlankNotes = {}
            /\ SumOver(distribution, DOMAIN distribution)
                  = Cardinality({i \in DOMAIN df.rows :
                                    df.rows[i].internal_note \notin BlankNotes})

\* C25 (as stated): no analytics, preview or raw-data request reads the data
\* directory while a download run that has begun has not finished.
C25_NoReadDuringRun ==
    reply.endpoint \in ReconcilerEndpoints => \A t \in Tasks : ~Started(t)

\* C25: nothing in the handlers orders a reconciliation after the download;
\* a reconciliation that reads the data directory during a run does so only
\* while the run is suspended in the sleep that follows a 429 response: no
\* download task holds the event loop while the handler answers.
C25_ReadDuringRunOnlyWhileSleeping ==
    reply.endpoint \in ReconcilerEndpoints =>
        /\ running = 0
        /\ \A t \in Tasks : Started(t) => tasks[t].sleeping

C25_Witness ==
    /\ reply.endpoint \in ReconcilerEndpoints
    /\ reply.status = "data read"
    /\ \E t \in Tasks : Started(t) /\ tasks[t].sleeping /\ ~files.scheduled_events.exists

\* the request paginate sends for its k-th page: the url and the params of
\* the call for the first page, the cursor of the page before and no
\* parameter for every other
RequestOfPage(k) ==
    IF k = 1
    THEN [url |-> purl, params |-> pparams]
    ELSE [url |-> PaginationOf(arrived[k - 1].body.pairs).next_page, params |-> {}]

\* C26: paginate sends the request for the first page to the given url with
\* the explicit query parameters of the call, and the request for every later
\* page to the next_page cursor of the page before it with no parameter (a
\* request repeated after a 429 is the same request again); the params of the
\* caller are as they were given.
C26_CursorRequestsDropParams ==
    /\ \A k \in DOMAIN arrived :
          [url |-> arrived[k].url, params |-> arrived[k].params] = RequestOfPage(k)
    /\ lastReq # NoRequest =>
          \/ lastReq = RequestOfPage(Len(arrived) + 1)
          \/ Len(arrived) > 0 /\ lastReq = RequestOfPage(Len(arrived))
    /\ ppc = "sleep" => lastReq = RequestOfPage(Len(arrived) + 1)
    /\ arrived # <<>> => arrived[1].params = pparams /\ arrived[1].url = purl

C26_Witness ==
    /\ Len(arrived) = 3
    /\ pparams = {"organization", "event_type"}
    /\ arrived[1].params = pparams
    /\ arrived[2].params = {} /\ arrived[2].url = CursorUrl(1)
    /\ arrived[3].params = {} /\ arrived[3].url = CursorUrl(2)
    /\ n429 > 0

\* C27: in every status response the progress is the percentage of the
\* current_step and total_steps of the same response,
\* floor(current_step * 100 / total_steps).
C27_StatusConsistent ==
    reply.endpoint = "download-status" =>
        reply.progress = (reply.current_step * 100) \div reply.total_steps

\* the steps a run has reported so far never go backwards
NonDecreasing(steps) == \A k, l \in DOMAIN steps : k < l => steps[k] <= steps[l]

\* C28: within one download run the steps passed to update_progress start at
\* 1 and never go backwards, the record shows the last of them, its
\* percentage never decreases from the start of the run on, and a run that
\* ends in success has reported 1, 2, 3, 4, 5, 6 in that order and ends with
\* current_step = 6 and percentage = 100.
C28_ProgressNeverGoesBack ==
    /\ [](Started(1) =>
            LET steps == tasks[1].steps
            IN  /\ steps # <<>> /\ steps[1] = 1
                /\ NonDecreasing(steps)
                /\ download_progress.current_step = steps[Len(steps)]
                /\ tasks[1].result.kind = "summary" =>
                      /\ {steps[k] : k \in DOMAIN steps} = 1..6
                      /\ download_progress.current_step = 6
                      /\ download_progress.percentage = 100)
    /\ [][/\ download_progress'.current_step >= download_progress.current_step
          /\ download_progress'.percentage >= download_progress.percentage]_vars

\* a run has returned its summary after fetching something in steps 5 and 6
C28_Witness ==
    /\ tasks[1].pc = "ret" /\ tasks[1].result.kind = "summary"
    /\ tasks[1].steps = <<1, 2, 3, 4, 5, 6, 6>>
    /\ tasks[1].result.scheduled_events > 0
    /\ download_progress.percentage = 100

\* the number of fetches of the log that succeeded for the event type uri u
SucceededFor(tk, u) ==
    Cardinality({k \in DOMAIN LogOf(tk, "scheduled_events") :
                    /\ LogOf(tk, "scheduled_events")[k][3]
                    /\ tk.event_types[LogOf(tk, "scheduled_events")[k][2]].uri = u})

\* C29: a pagination that fails hands nothing to the download run.  When
\* download_all_data returns after step 5, scheduled_events.json holds, for
\* every event type uri, the scheduled events of the fetches for it that
\* succeeded and none for a fetch that failed; and an event none of whose
\* invitee fetches succeeded has no invitee file written by the run.
C29_FailedPaginationContributesNothing ==
    LET tk == tasks[1]
        evs == files.scheduled_events.content
        inv == LogOf(tk, "invitees")
    IN  (tk.pc = "ret" /\ tk.i >= 1) =>
           /\ files.scheduled_events.exists
           /\ \A u \in {"t1", "t2"} :
                 Cardinality({k \in DOMAIN evs : evs[k]._event_type_uri = u})
                    = Len(ScheduledEventsOf(u)) * SucceededFor(tk, u)
           /\ \A e \in EventIds :
                 (~\E k \in DOMAIN inv :
                       inv[k][3] /\ EventIdOf(tk.all_scheduled_events[inv[k][2]].uri) = e)
                    => files.invitees[e] = NoFile

\* the scheduled events of the first of two event types could not be
\* fetched, those of the second were, the invitees of its event could not
C29_Witness ==
    /\ tasks[1].pc = "ret"
    /\ Len(tasks[1].event_types) = 2
    /\ tasks[1].event_types[1].uri = "t1"
    /\ tasks[1].event_types[2].uri = "t2"
    /\ LogOf(tasks[1], "scheduled_events") = <<<<"scheduled_events", 1, FALSE>>,
                                               <<"scheduled_events", 2, TRUE>>>>
    /\ LogOf(tasks[1], "invitees") = <<<<"invitees", 2, FALSE>>>>
    /\ Len(files.scheduled_events.content) = 2
    /\ files.invitees["e2"] = NoFile

\* C30: a 429 response whose Retry-After header is present and is no decimal
\* integer is handled like any other 429: get_json waits and sends the same
\* request again, it does not fail.
C30_AnyRetryAfterRecovers ==
    (/\ ~lastResp.exc /\ lastResp.status = 429
     /\ lastResp.retry_after.present /\ ~IsInt(lastResp.retry_after.text)) =>
        /\ ppc \in {"sleep", "fetch"}
        /\ perr = NoError

====
